---- MODULE Spec2Model ----
(***************************************************************************)
(* Verification model of the concurrency exercises of golang-course-ex:    *)
(*   - esercizio-05-rate-limiter : TokenBucketLimiter and its load test    *)
(*   - esercizio-08-context      : pipeline and worker pool with context   *)
(*   - esercizio-10-pipeline     : generator / mapStage / fanOut / fanIn   *)
(*   - esercizio-02-web-scraper  : jobs / results worker fan-out           *)
(*   - esercizio-06-worker-pool  : WorkerPool.worker with panic recovery   *)
(*   - esercizio-09-interface-design : MemoryStorage and FileStorage       *)
(*   - esercizio-03-json-api     : BookStore, handleBooks, handleBook      *)
(* Every exercise is a program of its own; each has its own specification  *)
(* over its own variables, the variables of the others stay at rest.       *)
(***************************************************************************)
EXTENDS Integers, Sequences, FiniteSets, TLC

(***************************************************************************)
(* Bounds of the model                                                     *)
(***************************************************************************)
MaxTokens == 2      \* largest maxTokens / -rate tried
NumCallers == 2     \* goroutines calling the limiter / -workers
MaxTicks == 3       \* ticker fires explored

(***************************************************************************)
(* esercizio-05-rate-limiter                                               *)
(***************************************************************************)
VARIABLES
  maxTokens,      \* rl.maxTokens = cap(rl.tokens)
  tokens,         \* len(rl.tokens)
  tickerRunning,  \* rl.ticker delivers ticks (not stopped)
  tickerC,        \* len(rl.ticker.C), the ticker channel holds at most one tick
  refillPc,       \* position of the refill goroutine: "recv" | "select"
  ticks,          \* history: ticker fires so far
  deposits,       \* history: tokens put into the bucket by the refill goroutine
  stopped,        \* history: Stop() has been called
  waitersAtStop,  \* history: the callers that were blocked in Wait at the last Stop()
  cpc,            \* position of each calling goroutine
  acquired,       \* history: successful Wait/TryWait calls so far
  ret,            \* what the last finished call of each caller returned:
                  \* "ok" (Wait), "true" | "false" (TryWait), "none" while calling
  doneC,          \* len(done), done := time.After(*duration)
  doneFired,      \* the duration timer has fired
  total,          \* main's atomic counter
  mainPc          \* position of main: "wgwait" | "printed" | "exited"

limVars == <<maxTokens, tokens, tickerRunning, tickerC, refillPc, ticks,
             deposits, stopped, waitersAtStop, cpc, acquired, ret, doneC, doneFired,
             total, mainPc>>

\* the other exercises: one record per program, fields named after its variables
VARIABLES
  pipe8,    \* esercizio-08-context: pipelineWithContextExample
  pool8,    \* esercizio-08-context: workerPoolWithContextExample
  chain,    \* esercizio-10-pipeline: generator -> mapStage -> mapStage
  fan,      \* esercizio-10-pipeline: generator -> fanOut -> fanIn
  scraper,  \* esercizio-02-web-scraper: main
  wp,       \* esercizio-06-worker-pool: WorkerPool
  store,    \* esercizio-09-interface-design: a Storage and its clients
  api,      \* esercizio-03-json-api: the BookStore and its handlers
  bfo,      \* esercizio-10-pipeline: boundedFanOut
  wf,       \* esercizio-01-word-frequency: main
  tmo       \* esercizio-08-context: withTimeoutExample

vars == <<limVars, pipe8, pool8, chain, fan, scraper, wp, store, api, bfo, wf, tmo>>

notLim == <<pipe8, pool8, chain, fan, scraper, wp, store, api, bfo, wf, tmo>>
notPipe8 == <<limVars, pool8, chain, fan, scraper, wp, store, api, bfo, wf, tmo>>
notPool8 == <<limVars, pipe8, chain, fan, scraper, wp, store, api, bfo, wf, tmo>>
notChain == <<limVars, pipe8, pool8, fan, scraper, wp, store, api, bfo, wf, tmo>>
notFan == <<limVars, pipe8, pool8, chain, scraper, wp, store, api, bfo, wf, tmo>>
notScraper == <<limVars, pipe8, pool8, chain, fan, wp, store, api, bfo, wf, tmo>>
notWp == <<limVars, pipe8, pool8, chain, fan, scraper, store, api, bfo, wf, tmo>>
notStore == <<limVars, pipe8, pool8, chain, fan, scraper, wp, api, bfo, wf, tmo>>
notApi == <<limVars, pipe8, pool8, chain, fan, scraper, wp, store, bfo, wf, tmo>>
notBfo == <<limVars, pipe8, pool8, chain, fan, scraper, wp, store, api, wf, tmo>>
notWf == <<limVars, pipe8, pool8, chain, fan, scraper, wp, store, api, bfo, tmo>>
notTmo == <<limVars, pipe8, pool8, chain, fan, scraper, wp, store, api, bfo, wf>>

\* a program that is not running: no goroutine of it exists
Off == [pc |-> "off"]

\* case <-ctx.Done(): can be taken once the context p.ctx is cancelled
CtxDoneNever(p) == FALSE
CtxDone(p) == p.ctxDone

Callers == DOMAIN cpc

\* a receive from a buffered channel of empty structs is possible iff it holds one
ChanCanRecvBug(len) == len >= 0
ChanCanRecv(len) == len > 0

\* select { case rl.tokens <- struct{}{}: default: } on a channel of cap c
TrySendBug(len, c) == len + 1
TrySend(len, c) == IF len < c THEN len + 1 ELSE len

\* <-rl.tokens takes one token out of a channel holding len tokens
TakeTokenAll(len) == 0
TakeToken(len) == len - 1

\* NewTokenBucketLimiter fills the channel with maxTokens tokens
InitialTokensBug(n) == n + 1
InitialTokens(n) == n

\* State of the limiter right after NewTokenBucketLimiter(n, refillRate)
NewTokenBucketLimiter(n) ==
  /\ maxTokens = n
  /\ tokens = InitialTokens(n)
  /\ tickerRunning = TRUE
  /\ tickerC = 0
  /\ refillPc = "recv"
  /\ ticks = 0
  /\ deposits = 0
  /\ stopped = FALSE
  /\ waitersAtStop = {}

\* the runtime delivers a tick on ticker.C; a tick is dropped when one is pending
TickerFire ==
  /\ tickerRunning
  /\ ticks < MaxTicks
  /\ ticks' = ticks + 1
  /\ tickerC' = 1
  /\ UNCHANGED <<maxTokens, tokens, tickerRunning, refillPc, deposits, stopped, waitersAtStop,
                 cpc, acquired, ret, doneC, doneFired, total, mainPc>>
  /\ UNCHANGED notLim

\* for range ticker.C : the refill goroutine receives a tick
RefillRecv ==
  /\ refillPc = "recv"
  /\ tickerC = 1
  /\ tickerC' = 0
  /\ refillPc' = "select"
  /\ UNCHANGED <<maxTokens, tokens, tickerRunning, ticks, deposits, stopped, waitersAtStop,
                 cpc, acquired, ret, doneC, doneFired, total, mainPc>>
  /\ UNCHANGED notLim

\* select { case rl.tokens <- struct{}{}: default: }
RefillSelect ==
  /\ refillPc = "select"
  /\ tokens' = TrySend(tokens, maxTokens)
  /\ deposits' = deposits + (tokens' - tokens)
  /\ refillPc' = "recv"
  /\ UNCHANGED <<maxTokens, tickerRunning, tickerC, ticks, stopped, waitersAtStop,
                 cpc, acquired, ret, doneC, doneFired, total, mainPc>>
  /\ UNCHANGED notLim

\* a goroutine calls rl.Wait() and is now at <-rl.tokens
CallWait(c) ==
  /\ cpc[c] = "idle"
  /\ cpc' = [cpc EXCEPT ![c] = "wait"]
  /\ ret' = [ret EXCEPT ![c] = "none"]
  /\ UNCHANGED <<maxTokens, tokens, tickerRunning, tickerC, refillPc, ticks,
                 deposits, stopped, waitersAtStop, acquired, doneC, doneFired,
                 total, mainPc>>
  /\ UNCHANGED notLim

\* <-rl.tokens completes and Wait returns
WaitReturn(c) ==
  /\ cpc[c] = "wait"
  /\ ChanCanRecv(tokens)
  /\ tokens' = TakeToken(tokens)
  /\ acquired' = acquired + 1
  /\ cpc' = [cpc EXCEPT ![c] = "idle"]
  /\ ret' = [ret EXCEPT ![c] = "ok"]
  /\ UNCHANGED <<maxTokens, tickerRunning, tickerC, refillPc, ticks,
                 deposits, stopped, waitersAtStop, doneC, doneFired, total, mainPc>>
  /\ UNCHANGED notLim

\* the timeouts given to TryWait: 0 stands for every timeout <= 0, whose
\* timer has expired when the select looks at it, 1 for every timeout > 0
Timeouts == {0, 1}

\* a goroutine calls rl.TryWait(timeout) and is now at the select; the
\* channel of time.After(timeout) is ready at once when timeout <= 0
CallTryWait(c, timeout) ==
  /\ cpc[c] = "idle"
  /\ cpc' = [cpc EXCEPT ![c] = IF timeout <= 0 THEN "tryexpired" ELSE "trywait"]
  /\ ret' = [ret EXCEPT ![c] = "none"]
  /\ UNCHANGED <<maxTokens, tokens, tickerRunning, tickerC, refillPc, ticks,
                 deposits, stopped, waitersAtStop, acquired, doneC, doneFired,
                 total, mainPc>>
  /\ UNCHANGED notLim

\* the timer of time.After(timeout), timeout > 0, fires: the timer runs from
\* the evaluation of time.After, whether or not the bucket holds a token, and
\* a short timeout can be over when the select looks at its cases
TryWaitExpire(c) ==
  /\ cpc[c] = "trywait"
  /\ cpc' = [cpc EXCEPT ![c] = "tryexpired"]
  /\ UNCHANGED <<maxTokens, tokens, tickerRunning, tickerC, refillPc, ticks,
                 deposits, stopped, waitersAtStop, acquired, ret, doneC, doneFired,
                 total, mainPc>>
  /\ UNCHANGED notLim

\* case <-rl.tokens: return true
TryWaitToken(c) ==
  /\ cpc[c] \in {"trywait", "tryexpired"}
  /\ ChanCanRecv(tokens)
  /\ tokens' = TakeToken(tokens)
  /\ acquired' = acquired + 1
  /\ ret' = [ret EXCEPT ![c] = "true"]
  /\ cpc' = [cpc EXCEPT ![c] = "idle"]
  /\ UNCHANGED <<maxTokens, tickerRunning, tickerC, refillPc, ticks,
                 deposits, stopped, waitersAtStop, doneC, doneFired, total, mainPc>>
  /\ UNCHANGED notLim

\* case <-time.After(timeout): return false; when a token is in the bucket
\* as well, both cases are ready and the select takes either
TryWaitTimeout(c) ==
  /\ cpc[c] = "tryexpired"
  /\ ret' = [ret EXCEPT ![c] = "false"]
  /\ cpc' = [cpc EXCEPT ![c] = "idle"]
  /\ UNCHANGED <<maxTokens, tokens, tickerRunning, tickerC, refillPc, ticks,
                 deposits, stopped, waitersAtStop, acquired, doneC, doneFired, total, mainPc>>
  /\ UNCHANGED notLim

\* rl.ticker.Stop(): no tick is delivered any more; the channel is not closed.
\* Whether a tick already pending on ticker.C survives Stop depends on the Go
\* release the program is built with, so both outcomes are possible.
StopTicker ==
  /\ tickerRunning' = FALSE
  /\ tickerC' \in {tickerC, 0}

Stop ==
  /\ stopped' = TRUE
  /\ waitersAtStop' = {c \in Callers : cpc[c] = "wait"}
  /\ StopTicker
  /\ UNCHANGED <<maxTokens, tokens, refillPc, ticks, deposits,
                 cpc, acquired, ret, doneC, doneFired, total, mainPc>>
  /\ UNCHANGED notLim

\* ---- the load test of main() ----

\* done := time.After(*duration): the timer sends ONE value on done
DoneFire ==
  /\ mainPc = "wgwait"
  /\ ~doneFired
  /\ doneFired' = TRUE
  /\ doneC' = 1
  /\ UNCHANGED <<maxTokens, tokens, tickerRunning, tickerC, refillPc, ticks,
                 deposits, stopped, waitersAtStop, cpc, acquired, ret, total, mainPc>>
  /\ UNCHANGED notLim

\* select { case <-done: return ... } : the worker receives the value of done
WorkerSelectDone(w) ==
  /\ cpc[w] = "select"
  /\ ChanCanRecv(doneC)
  /\ doneC' = doneC - 1
  /\ cpc' = [cpc EXCEPT ![w] = "returned"]
  /\ UNCHANGED <<maxTokens, tokens, tickerRunning, tickerC, refillPc, ticks,
                 deposits, stopped, waitersAtStop, acquired, ret, doneFired, total, mainPc>>
  /\ UNCHANGED notLim

\* select { ... default: limiter.Wait() } : taken only when done is not ready
WorkerSelectDefault(w) ==
  /\ cpc[w] = "select"
  /\ ~ChanCanRecv(doneC)
  /\ cpc' = [cpc EXCEPT ![w] = "wait"]
  /\ ret' = [ret EXCEPT ![w] = "none"]
  /\ UNCHANGED <<maxTokens, tokens, tickerRunning, tickerC, refillPc, ticks,
                 deposits, stopped, waitersAtStop, acquired, doneC, doneFired,
                 total, mainPc>>
  /\ UNCHANGED notLim

\* limiter.Wait() returns; atomic.AddInt64(&total, 1); back to the select
WorkerWaitReturn(w) ==
  /\ cpc[w] = "wait"
  /\ ChanCanRecv(tokens)
  /\ tokens' = TakeToken(tokens)
  /\ acquired' = acquired + 1
  /\ total' = total + 1
  /\ cpc' = [cpc EXCEPT ![w] = "select"]
  /\ ret' = [ret EXCEPT ![w] = "ok"]
  /\ UNCHANGED <<maxTokens, tickerRunning, tickerC, refillPc, ticks,
                 deposits, stopped, waitersAtStop, doneC, doneFired, mainPc>>
  /\ UNCHANGED notLim

\* wg.Wait() returns once every worker has run wg.Done(); main prints the totals
MainAfterWait ==
  /\ mainPc = "wgwait"
  /\ \A w \in Callers : cpc[w] = "returned"
  /\ mainPc' = "printed"
  /\ UNCHANGED <<maxTokens, tokens, tickerRunning, tickerC, refillPc, ticks,
                 deposits, stopped, waitersAtStop, cpc, acquired, ret, doneC, doneFired,
                 total>>
  /\ UNCHANGED notLim

\* defer limiter.Stop() runs when main returns
MainDeferredStop ==
  /\ mainPc = "printed"
  /\ mainPc' = "exited"
  /\ stopped' = TRUE
  /\ waitersAtStop' = {c \in Callers : cpc[c] = "wait"}
  /\ StopTicker
  /\ UNCHANGED <<maxTokens, tokens, refillPc, ticks, deposits,
                 cpc, acquired, ret, doneC, doneFired, total>>
  /\ UNCHANGED notLim

\* ---- specifications of the rate limiter ----

\* a limiter used by NumCallers goroutines calling Wait / TryWait / Stop freely
InitLimiter ==
  /\ \E n \in 1..MaxTokens : NewTokenBucketLimiter(n)
  /\ cpc = [c \in 1..NumCallers |-> "idle"]
  /\ acquired = 0
  /\ ret = [c \in 1..NumCallers |-> "none"]
  /\ doneC = 0
  /\ doneFired = FALSE
  /\ total = 0
  /\ mainPc = "none"
  /\ pipe8 = Off /\ pool8 = Off /\ chain = Off /\ fan = Off
  /\ scraper = Off /\ wp = Off /\ store = Off /\ api = Off /\ bfo = Off /\ wf = Off /\ tmo = Off

NextLimiter ==
  \/ TickerFire
  \/ RefillRecv
  \/ RefillSelect
  \/ Stop
  \/ \E c \in Callers : CallWait(c)
  \/ \E c \in Callers : WaitReturn(c)
  \/ \E c \in Callers, timeout \in Timeouts : CallTryWait(c, timeout)
  \/ \E c \in Callers : TryWaitExpire(c)
  \/ \E c \in Callers : TryWaitToken(c)
  \/ \E c \in Callers : TryWaitTimeout(c)

\* main(): rate in 1..MaxTokens, workers in 1..NumCallers, duration > 0
InitLoadTest ==
  /\ \E rate \in 1..MaxTokens : NewTokenBucketLimiter(rate)
  /\ \E workers \in 1..NumCallers :
       /\ cpc = [w \in 1..workers |-> "select"]
       /\ acquired = 0
       /\ ret = [w \in 1..workers |-> "none"]
  /\ doneC = 0
  /\ doneFired = FALSE
  /\ total = 0
  /\ mainPc = "wgwait"
  /\ pipe8 = Off /\ pool8 = Off /\ chain = Off /\ fan = Off
  /\ scraper = Off /\ wp = Off /\ store = Off /\ api = Off /\ bfo = Off /\ wf = Off /\ tmo = Off

NextLoadTest ==
  \/ TickerFire
  \/ RefillRecv
  \/ RefillSelect
  \/ DoneFire
  \/ \E w \in Callers : WorkerSelectDone(w)
  \/ \E w \in Callers : WorkerSelectDefault(w)
  \/ \E w \in Callers : WorkerWaitReturn(w)
  \/ MainAfterWait
  \/ MainDeferredStop

SpecLimiter == InitLimiter /\ [][NextLimiter]_vars

\* the Go scheduler runs every goroutine that can take a step; callers are
\* free never to call, and nobody is obliged to call Stop
FairLimiter ==
  /\ WF_vars(TickerFire)
  /\ WF_vars(RefillRecv)
  /\ WF_vars(RefillSelect)
  /\ \A c \in 1..NumCallers : WF_vars(WaitReturn(c))
  /\ \A c \in 1..NumCallers :
       WF_vars(TryWaitToken(c) \/ TryWaitExpire(c) \/ TryWaitTimeout(c))

FairSpecLimiter == SpecLimiter /\ FairLimiter

SpecLoadTest == InitLoadTest /\ [][NextLoadTest]_vars

(***************************************************************************)
(* Properties of the rate limiter                                          *)
(***************************************************************************)

\* C1: in every reachable state of the limiter, under any interleaving of
\* refill ticks, Wait and TryWait calls, 0 <= len(tokens) <= maxTokens.
C1_TokenBounds == 0 <= tokens /\ tokens <= maxTokens

\* a tick was dropped on a full bucket after tokens were taken by Wait and
\* by TryWait and put back by the refill goroutine
C1_Witness ==
  /\ tokens = maxTokens
  /\ deposits >= 1
  /\ ticks > deposits
  /\ refillPc = "recv"
  /\ tickerC = 0
  /\ stopped = FALSE
  /\ acquired >= 2
  /\ \E c \in Callers : ret[c] = "true"
  /\ \E c \in Callers : ret[c] = "ok"

\* C2: a Wait returns only by taking one token that is in the bucket, and
\* the step that lets one caller return leaves every other blocked caller
\* blocked: with one token and two callers in Wait exactly one returns, the
\* other stays in Wait until the refill goroutine deposits a token.
C2_NoDoubleSpend ==
  [][\A c \in Callers :
       (cpc[c] = "wait" /\ cpc'[c] # "wait") =>
          /\ tokens >= 1
          /\ tokens' = tokens - 1
          /\ \A d \in Callers \ {c} : cpc[d] = "wait" => cpc'[d] = "wait"]_vars

\* one token, two callers in Wait: one has returned, the other is still
\* blocked on the empty bucket and no refill has happened
C2_Witness ==
  /\ maxTokens = 1
  /\ deposits = 0
  /\ tokens = 0
  /\ \E c, d \in Callers :
       /\ c # d
       /\ cpc[c] = "idle" /\ ret[c] = "ok"
       /\ cpc[d] = "wait"
  /\ acquired = 1

\* a step of the load test in which worker w leaves limiter.Wait()
LeavesWait(w) == NextLoadTest /\ cpc[w] = "wait" /\ cpc'[w] # "wait"

\* C4: a worker blocked in Wait on an empty bucket can return once its
\* cancellation signal (done) has fired, without a token becoming available.
C4_WaitHonoursCancellation ==
  \A w \in Callers :
    (doneFired /\ cpc[w] = "wait" /\ tokens = 0) => ENABLED LeavesWait(w)

\* C5: after Stop() every caller that was blocked in Wait when Stop was
\* called is unblocked and returns; none stays blocked forever after shutdown.
C5_StopUnblocksWaiters ==
  \A c \in 1..NumCallers :
    []((c \in waitersAtStop /\ cpc[c] = "wait") => <>(cpc[c] # "wait"))

(***************************************************************************)
(* Inputs of the pipeline programs                                         *)
(***************************************************************************)
MaxLen == 3          \* longest input slice tried
Values == 1..2       \* the numbers an input slice is made of

\* all slices of numbers of length 0..MaxLen
Inputs == UNION {[1..n -> Values] : n \in 0..MaxLen}

\* the slices <<1, ..., n>> of length 0..MaxLen: every item is told apart
Numbered == {[i \in 1..n |-> i] : n \in 0..MaxLen}

\* the first n elements of a slice
Prefix(s, n) == [i \in 1..n |-> s[i]]

\* IsPrefix(s, t): s is an initial part of t
IsPrefix(s, t) == Len(s) <= Len(t) /\ s = Prefix(t, Len(s))

(***************************************************************************)
(* esercizio-08-context: pipelineWithContextExample / pipeline             *)
(*   nums     the input slice                                              *)
(*   ctxDone  ctx.Done() is closed (deadline reached or cancel() called)   *)
(*   idx      position of the stage goroutine in `range nums` (1-based)    *)
(*   gpc      stage goroutine: "run" | "returned"                          *)
(*   closed   out is closed                                                *)
(*   cpc      consumer: "range" | "sleep" | "done" | "exited"              *)
(*   got      the values the consumer received, in order                   *)
(***************************************************************************)

\* out <- number * 2
Pipe8FnBug(number) == number
Pipe8Fn(number) == number * 2

InitPipe8 ==
  \E nums \in Inputs :
    pipe8 = [pc |-> "on", nums |-> nums, ctxDone |-> FALSE, idx |-> 1,
             gpc |-> "run", closed |-> FALSE, cpc |-> "range", got |-> <<>>]

\* the 600ms deadline of context.WithTimeout is reached
Pipe8Deadline ==
  /\ pipe8.pc = "on"
  /\ ~pipe8.ctxDone
  /\ pipe8.cpc # "exited"
  /\ pipe8' = [pipe8 EXCEPT !.ctxDone = TRUE]
  /\ UNCHANGED notPipe8

\* the send as it would be on a buffered out: it does not wait for the consumer
Pipe8SendBuffered ==
  /\ pipe8.pc = "on"
  /\ pipe8.gpc = "run"
  /\ pipe8.idx <= Len(pipe8.nums)
  /\ pipe8' = [pipe8 EXCEPT !.idx = @ + 1]
  /\ UNCHANGED notPipe8

\* case out <- number * 2: the unbuffered send meets the consumer's receive
Pipe8Send ==
  /\ pipe8.pc = "on"
  /\ pipe8.gpc = "run"
  /\ pipe8.idx <= Len(pipe8.nums)
  /\ pipe8.cpc = "range"
  /\ pipe8' = [pipe8 EXCEPT !.got = Append(@, Pipe8Fn(pipe8.nums[pipe8.idx])),
                            !.idx = @ + 1,
                            !.cpc = "sleep"]
  /\ UNCHANGED notPipe8

\* case <-ctx.Done(): return, and the deferred close(out)
Pipe8Cancelled ==
  /\ pipe8.pc = "on"
  /\ pipe8.gpc = "run"
  /\ pipe8.idx <= Len(pipe8.nums)
  /\ CtxDone(pipe8)
  /\ pipe8' = [pipe8 EXCEPT !.gpc = "returned", !.closed = TRUE]
  /\ UNCHANGED notPipe8

\* range nums is exhausted: the goroutine returns, and the deferred close(out)
Pipe8LoopEnd ==
  /\ pipe8.pc = "on"
  /\ pipe8.gpc = "run"
  /\ pipe8.idx > Len(pipe8.nums)
  /\ pipe8' = [pipe8 EXCEPT !.gpc = "returned", !.closed = TRUE]
  /\ UNCHANGED notPipe8

\* the consumer has printed the value and slept, and receives again
Pipe8ConsumerNext ==
  /\ pipe8.pc = "on"
  /\ pipe8.cpc = "sleep"
  /\ pipe8' = [pipe8 EXCEPT !.cpc = "range"]
  /\ UNCHANGED notPipe8

\* for value := range out ends: out is closed (and, unbuffered, empty)
Pipe8ConsumerClosed ==
  /\ pipe8.pc = "on"
  /\ pipe8.cpc = "range"
  /\ pipe8.closed
  /\ pipe8' = [pipe8 EXCEPT !.cpc = "done"]
  /\ UNCHANGED notPipe8

\* pipelineWithContextExample returns: the deferred cancel() runs
Pipe8Exit ==
  /\ pipe8.pc = "on"
  /\ pipe8.cpc = "done"
  /\ pipe8' = [pipe8 EXCEPT !.cpc = "exited", !.ctxDone = TRUE]
  /\ UNCHANGED notPipe8

\* the values the stage has produced: those it has sent, and the number * 2
\* of the current iteration of `for _, number := range nums`
Pipe8Produced ==
  IF pipe8.idx <= Len(pipe8.nums) THEN pipe8.idx ELSE pipe8.idx - 1

NextPipe8 ==
  \/ Pipe8Deadline
  \/ Pipe8Send
  \/ Pipe8Cancelled
  \/ Pipe8LoopEnd
  \/ Pipe8ConsumerNext
  \/ Pipe8ConsumerClosed
  \/ Pipe8Exit

(***************************************************************************)
(* esercizio-10-pipeline: generator -> mapStage(double) -> mapStage(+10)   *)
(*   values   the values given to generator                                *)
(*   ctxDone  ctx.Done() is closed                                         *)
(*   gidx     position of the generator in `range values`                  *)
(*   gpc      generator goroutine: "run" | "returned" (out closed)         *)
(*   st[k]    mapStage k: pc "range" | "select" | "returned", v the value  *)
(*            it received and is about to send                             *)
(*   cpc      consumer `for v := range added`: "range" | "done"            *)
(*   got      the values the consumer received, in order                   *)
(***************************************************************************)
NumStages == 2     \* TestPipeline chains two mapStage calls

Stages == 1..NumStages

\* the functions of TestPipeline: n * 2, then n + 10
StageFn(k, n) == IF k = 1 THEN n * 2 ELSE n + 10

\* what mapStage k puts on its output for the value v it holds
MapStageOutBug(k, v) == v
MapStageOut(k, v) == StageFn(k, v)

\* the composition of the stages 1..k applied to n
RECURSIVE ChainFn(_, _)
ChainFn(k, n) == IF k = 0 THEN n ELSE StageFn(k, ChainFn(k - 1, n))

InitChain ==
  \E values \in Inputs :
    chain = [pc |-> "on", values |-> values, ctxDone |-> FALSE, gidx |-> 1,
             gpc |-> "run",
             st |-> [k \in Stages |-> [pc |-> "range", v |-> 0]],
             cpc |-> "range", got |-> <<>>]

\* the output channel of stage k (0 is the generator) is closed
ChainClosedBug(k) == TRUE
ChainClosed(k) ==
  IF k = 0 THEN chain.gpc = "returned" ELSE chain.st[k].pc = "returned"

\* cancel() is called (TestPipelineCancellation)
ChainCancel ==
  /\ chain.pc = "on"
  /\ ~chain.ctxDone
  /\ chain' = [chain EXCEPT !.ctxDone = TRUE]
  /\ UNCHANGED notChain

\* generator: case out <- v, received by the first mapStage at `range in`
GenSend ==
  /\ chain.pc = "on"
  /\ chain.gpc = "run"
  /\ chain.gidx <= Len(chain.values)
  /\ chain.st[1].pc = "range"
  /\ chain' = [chain EXCEPT !.st[1] = [pc |-> "select",
                                       v |-> chain.values[chain.gidx]],
                            !.gidx = @ + 1]
  /\ UNCHANGED notChain

\* generator: case <-ctx.Done(): return, deferred close(out)
GenCancelled ==
  /\ chain.pc = "on"
  /\ chain.gpc = "run"
  /\ chain.gidx <= Len(chain.values)
  /\ CtxDone(chain)
  /\ chain' = [chain EXCEPT !.gpc = "returned"]
  /\ UNCHANGED notChain

\* generator: range values exhausted, deferred close(out)
GenLoopEnd ==
  /\ chain.pc = "on"
  /\ chain.gpc = "run"
  /\ chain.gidx > Len(chain.values)
  /\ chain' = [chain EXCEPT !.gpc = "returned"]
  /\ UNCHANGED notChain

\* mapStage k: case out <- fn(v), received by the next mapStage
StageSend(k) ==
  /\ chain.pc = "on"
  /\ k < NumStages
  /\ chain.st[k].pc = "select"
  /\ chain.st[k + 1].pc = "range"
  /\ chain' = [chain EXCEPT !.st[k].pc = "range",
                            !.st[k + 1] = [pc |-> "select",
                                           v |-> MapStageOut(k, chain.st[k].v)]]
  /\ UNCHANGED notChain

\* the last mapStage: case out <- fn(v), received by the consumer
StageDeliver ==
  /\ chain.pc = "on"
  /\ chain.st[NumStages].pc = "select"
  /\ chain.cpc = "range"
  /\ chain' = [chain EXCEPT !.st[NumStages].pc = "range",
                            !.got = Append(@, MapStageOut(NumStages,
                                                   chain.st[NumStages].v))]
  /\ UNCHANGED notChain

\* mapStage k: case <-ctx.Done(): return, deferred close(out)
StageCancelled(k) ==
  /\ chain.pc = "on"
  /\ chain.st[k].pc = "select"
  /\ CtxDone(chain)
  /\ chain' = [chain EXCEPT !.st[k].pc = "returned"]
  /\ UNCHANGED notChain

\* mapStage k: `range in` ends because in is closed, deferred close(out)
StageInputClosed(k) ==
  /\ chain.pc = "on"
  /\ chain.st[k].pc = "range"
  /\ ChainClosed(k - 1)
  /\ chain' = [chain EXCEPT !.st[k].pc = "returned"]
  /\ UNCHANGED notChain

\* the consumer's `for v := range added` ends
ChainConsumerClosed ==
  /\ chain.pc = "on"
  /\ chain.cpc = "range"
  /\ ChainClosed(NumStages)
  /\ chain' = [chain EXCEPT !.cpc = "done"]
  /\ UNCHANGED notChain

NextChain ==
  \/ ChainCancel
  \/ GenSend
  \/ GenCancelled
  \/ GenLoopEnd
  \/ \E k \in Stages : StageSend(k)
  \/ StageDeliver
  \/ \E k \in Stages : StageCancelled(k)
  \/ \E k \in Stages : StageInputClosed(k)
  \/ ChainConsumerClosed

(***************************************************************************)
(* esercizio-08-context: workerPoolWithContextExample                      *)
(*   ctxDone     ctx.Done() is closed (800ms deadline or deferred cancel)  *)
(*   jobs        the buffered jobs channel, jobsClosed after close(jobs)   *)
(*   results     the buffered results channel                              *)
(*   jobID       main's loop variable                                      *)
(*   mpc         main: "send" | "recv" | "returned"                        *)
(*   received    main's counter, got the values main received              *)
(*   w[i]        worker i: pc "select" | "sleep" | "send" | "returned",    *)
(*               job the job it holds, taken the jobs it received          *)
(***************************************************************************)
PoolJobs == 3       \* jobs sent by main (the source sends 10)
PoolWorkers == 2    \* worker goroutines (the source starts 3)

\* make(chan int, 10): both channels have room for every job
PoolChanCap == PoolJobs

PoolIds == 1..PoolWorkers

\* receiving from a channel removes its first element
ChanRestBug(q) == q
ChanRest(q) == Tail(q)

\* results <- job * 2
Pool8Fn(job) == job * 2

InitPool8 ==
  pool8 = [pc |-> "on", ctxDone |-> FALSE, jobs |-> <<>>, jobsClosed |-> FALSE,
           results |-> <<>>, jobID |-> 1, mpc |-> "send", received |-> 0,
           got |-> <<>>,
           w |-> [i \in PoolIds |-> [pc |-> "select", job |-> 0, taken |-> <<>>]]]

\* the 800ms deadline of context.WithTimeout is reached
Pool8Deadline ==
  /\ pool8.pc = "on"
  /\ ~pool8.ctxDone
  /\ pool8.mpc # "returned"
  /\ pool8' = [pool8 EXCEPT !.ctxDone = TRUE]
  /\ UNCHANGED notPool8

\* jobs <- jobID on an unbuffered jobs: the send meets the receive of a worker
Pool8MainSendUnbuffered ==
  /\ pool8.pc = "on"
  /\ pool8.mpc = "send"
  /\ pool8.jobID <= PoolJobs
  /\ \E i \in PoolIds :
       /\ pool8.w[i].pc = "select"
       /\ pool8' = [pool8 EXCEPT !.w[i] = [pc |-> "sleep", job |-> pool8.jobID,
                                           taken |-> Append(@.taken, pool8.jobID)],
                                 !.jobID = @ + 1]
  /\ UNCHANGED notPool8

\* jobs <- jobID
Pool8MainSend ==
  /\ pool8.pc = "on"
  /\ pool8.mpc = "send"
  /\ pool8.jobID <= PoolJobs
  /\ Len(pool8.jobs) < PoolChanCap
  /\ pool8' = [pool8 EXCEPT !.jobs = Append(@, pool8.jobID), !.jobID = @ + 1]
  /\ UNCHANGED notPool8

\* close(jobs)
Pool8MainClose ==
  /\ pool8.pc = "on"
  /\ pool8.mpc = "send"
  /\ pool8.jobID > PoolJobs
  /\ pool8' = [pool8 EXCEPT !.jobsClosed = TRUE, !.mpc = "recv"]
  /\ UNCHANGED notPool8

\* case value := <-results: received++
Pool8MainRecv ==
  /\ pool8.pc = "on"
  /\ pool8.mpc = "recv"
  /\ pool8.received < PoolJobs
  /\ pool8.results # <<>>
  /\ pool8' = [pool8 EXCEPT !.got = Append(@, Head(pool8.results)),
                            !.results = ChanRest(@),
                            !.received = @ + 1]
  /\ UNCHANGED notPool8

\* case <-ctx.Done(): return (the deferred cancel() runs)
Pool8MainCancelled ==
  /\ pool8.pc = "on"
  /\ pool8.mpc = "recv"
  /\ pool8.received < PoolJobs
  /\ CtxDone(pool8)
  /\ pool8' = [pool8 EXCEPT !.mpc = "returned"]
  /\ UNCHANGED notPool8

\* received == 10: main returns and the deferred cancel() runs
Pool8MainDone ==
  /\ pool8.pc = "on"
  /\ pool8.mpc = "recv"
  /\ pool8.received >= PoolJobs
  /\ pool8' = [pool8 EXCEPT !.mpc = "returned", !.ctxDone = TRUE]
  /\ UNCHANGED notPool8

\* worker: case <-ctx.Done(): return
Pool8WorkerCancelled(i) ==
  /\ pool8.pc = "on"
  /\ pool8.w[i].pc = "select"
  /\ CtxDone(pool8)
  /\ pool8' = [pool8 EXCEPT !.w[i].pc = "returned"]
  /\ UNCHANGED notPool8

\* worker: case job, ok := <-jobs with ok
Pool8WorkerRecv(i) ==
  /\ pool8.pc = "on"
  /\ pool8.w[i].pc = "select"
  /\ pool8.jobs # <<>>
  /\ pool8' = [pool8 EXCEPT !.w[i] = [pc |-> "sleep", job |-> Head(pool8.jobs),
                                      taken |-> Append(@.taken, Head(pool8.jobs))],
                            !.jobs = ChanRest(@)]
  /\ UNCHANGED notPool8

\* worker: case job, ok := <-jobs with !ok: return
Pool8WorkerJobsClosed(i) ==
  /\ pool8.pc = "on"
  /\ pool8.w[i].pc = "select"
  /\ pool8.jobs = <<>>
  /\ pool8.jobsClosed
  /\ pool8' = [pool8 EXCEPT !.w[i].pc = "returned"]
  /\ UNCHANGED notPool8

\* worker: time.Sleep(150ms) is over
Pool8WorkerWork(i) ==
  /\ pool8.pc = "on"
  /\ pool8.w[i].pc = "sleep"
  /\ pool8' = [pool8 EXCEPT !.w[i].pc = "send"]
  /\ UNCHANGED notPool8

\* worker: case results <- job * 2
Pool8WorkerSend(i) ==
  /\ pool8.pc = "on"
  /\ pool8.w[i].pc = "send"
  /\ Len(pool8.results) < PoolChanCap
  /\ pool8' = [pool8 EXCEPT !.results = Append(@, Pool8Fn(pool8.w[i].job)),
                            !.w[i].pc = "select"]
  /\ UNCHANGED notPool8

\* worker: the inner case <-ctx.Done(): return, the result is abandoned
Pool8WorkerSendCancelled(i) ==
  /\ pool8.pc = "on"
  /\ pool8.w[i].pc = "send"
  /\ CtxDone(pool8)
  /\ pool8' = [pool8 EXCEPT !.w[i].pc = "returned"]
  /\ UNCHANGED notPool8

NextPool8 ==
  \/ Pool8Deadline
  \/ Pool8MainSend
  \/ Pool8MainClose
  \/ Pool8MainRecv
  \/ Pool8MainCancelled
  \/ Pool8MainDone
  \/ \E i \in PoolIds : Pool8WorkerCancelled(i)
  \/ \E i \in PoolIds : Pool8WorkerRecv(i)
  \/ \E i \in PoolIds : Pool8WorkerJobsClosed(i)
  \/ \E i \in PoolIds : Pool8WorkerWork(i)
  \/ \E i \in PoolIds : Pool8WorkerSend(i)
  \/ \E i \in PoolIds : Pool8WorkerSendCancelled(i)

(***************************************************************************)
(* esercizio-02-web-scraper: main                                          *)
(*   urls          the URL list (never empty: main returns before)         *)
(*   workers       *workers after `if *workers < 1 { *workers = 1 }`       *)
(*   fidx, fpc     the feeder goroutine: position in `range urls`,         *)
(*                 "send" | "returned"                                     *)
(*   jobsClosed    close(jobs) was executed                                *)
(*   w[i]          worker i: pc "range" | "fetch" | "send" | "returned",   *)
(*                 url it holds, err of its fetch, taken the urls it       *)
(*                 received, sent the number of results it sent            *)
(*   wg            the WaitGroup counter                                   *)
(*   resultsClosed close(results) was executed                             *)
(*   mpc           main: "range" | "done"                                  *)
(*   successes     main's counter, got the results main received           *)
(***************************************************************************)
MaxScraperWorkers == 2    \* largest -workers value tried

\* -workers values: 0 stands for every value below 1
WorkerFlags == 0..MaxScraperWorkers

\* if *workers < 1 { *workers = 1 }
ClampWorkers(n) == IF n < 1 THEN 1 ELSE n

\* for i := 0; i < *workers; i++ { go func() {...}() }: goroutines launched
LaunchedBug(workers) == workers + 1

Launched(workers) == workers

InitScraper ==
  \E urls \in Numbered \ {<<>>}, flag \in WorkerFlags :
    scraper = [pc |-> "on", urls |-> urls, workers |-> ClampWorkers(flag),
               fidx |-> 1, fpc |-> "send", jobsClosed |-> FALSE,
               w |-> [i \in 1..Launched(ClampWorkers(flag)) |->
                        [pc |-> "range", url |-> 0, err |-> FALSE,
                         taken |-> <<>>, sent |-> 0]],
               wg |-> ClampWorkers(flag), resultsClosed |-> FALSE,
               mpc |-> "range", successes |-> 0, got |-> <<>>]

ScraperIds == IF scraper.pc = "on" THEN DOMAIN scraper.w ELSE {}

\* feeder: jobs <- u, received by worker i at `for url := range jobs`
ScraperFeed(i) ==
  /\ scraper.pc = "on"
  /\ scraper.fpc = "send"
  /\ scraper.fidx <= Len(scraper.urls)
  /\ scraper.w[i].pc = "range"
  /\ scraper' = [scraper EXCEPT
        !.w[i].pc = "fetch",
        !.w[i].url = scraper.urls[scraper.fidx],
        !.w[i].taken = Append(@, scraper.urls[scraper.fidx]),
        !.fidx = @ + 1]
  /\ UNCHANGED notScraper

\* feeder: close(jobs)
ScraperFeedCloseBug ==
  /\ scraper.pc = "on"
  /\ scraper.fpc = "send"
  /\ scraper.fidx > Len(scraper.urls)
  /\ scraper' = [scraper EXCEPT !.fpc = "returned"]
  /\ UNCHANGED notScraper

ScraperFeedClose ==
  /\ scraper.pc = "on"
  /\ scraper.fpc = "send"
  /\ scraper.fidx > Len(scraper.urls)
  /\ scraper' = [scraper EXCEPT !.jobsClosed = TRUE, !.fpc = "returned"]
  /\ UNCHANGED notScraper

\* worker: fetch(url, client) returns a PageInfo with or without Error
ScraperFetch(i, err) ==
  /\ scraper.pc = "on"
  /\ scraper.w[i].pc = "fetch"
  /\ scraper' = [scraper EXCEPT !.w[i].pc = "send", !.w[i].err = err]
  /\ UNCHANGED notScraper

\* worker: results <- fetch(...), received by main's `for res := range results`
ScraperDeliver(i) ==
  /\ scraper.pc = "on"
  /\ scraper.w[i].pc = "send"
  /\ scraper.mpc = "range"
  /\ scraper' = [scraper EXCEPT
        !.w[i].pc = "range",
        !.w[i].sent = @ + 1,
        !.got = Append(@, [URL |-> scraper.w[i].url, Error |-> scraper.w[i].err]),
        !.successes = IF scraper.w[i].err THEN @ ELSE @ + 1]
  /\ UNCHANGED notScraper

\* worker: range jobs ends, deferred wg.Done()
ScraperWorkerDone(i) ==
  /\ scraper.pc = "on"
  /\ scraper.w[i].pc = "range"
  /\ scraper.jobsClosed
  /\ scraper' = [scraper EXCEPT !.w[i].pc = "returned", !.wg = @ - 1]
  /\ UNCHANGED notScraper

\* go func() { wg.Wait(); close(results) }()
ScraperCloseResults ==
  /\ scraper.pc = "on"
  /\ scraper.wg = 0
  /\ ~scraper.resultsClosed
  /\ scraper' = [scraper EXCEPT !.resultsClosed = TRUE]
  /\ UNCHANGED notScraper

\* main: range results ends, main prints the summary
ScraperMainDone ==
  /\ scraper.pc = "on"
  /\ scraper.mpc = "range"
  /\ scraper.resultsClosed
  /\ scraper' = [scraper EXCEPT !.mpc = "done"]
  /\ UNCHANGED notScraper

NextScraper ==
  \/ \E i \in ScraperIds : ScraperFeed(i)
  \/ ScraperFeedClose
  \/ \E i \in ScraperIds, err \in BOOLEAN : ScraperFetch(i, err)
  \/ \E i \in ScraperIds : ScraperDeliver(i)
  \/ \E i \in ScraperIds : ScraperWorkerDone(i)
  \/ ScraperCloseResults
  \/ ScraperMainDone

(***************************************************************************)
(* esercizio-06-worker-pool: WorkerPool                                    *)
(*   numWorkers    wp.numWorkers                                           *)
(*   tasks         the buffered tasks channel, tasksClosed after close     *)
(*   results       the buffered results channel, resultsClosed after close *)
(*   w[i]          worker i: pc "new" | "range" | "process" | "send" |     *)
(*                 "recover" | "returned", task it holds, taken the task   *)
(*                 IDs it received, sent the number of Results it sent     *)
(*   wg            wp.wg                                                   *)
(*   nextID        the ID of the next task the client submits              *)
(*   got           the Results the client received                         *)
(*   crashed       an unrecovered panic ended the process                  *)
(*   mode, T       the client: "free" submits up to T tasks and receives   *)
(*                 in any order; "batch" submits T tasks whose Process     *)
(*                 returns a value, then receives T Results, then stops    *)
(*                 the pool (TestWorkerPool, the usage example)            *)
(* A Task is [ID, kind]; kind tells what task.Process does:                *)
(* "ok" returns a value, "err" returns an error, "panic" panics.           *)
(***************************************************************************)
MaxPoolWorkers == 2    \* largest n of NewWorkerPool(n) tried
MaxTasks == 3          \* tasks the client submits
BatchTasks == 4        \* largest number of tasks submitted before any receive

Kinds == {"ok", "err", "panic"}

NoTask == [ID |-> -1, kind |-> "ok"]

\* NewWorkerPool(n), and the client that is going to use the pool
NewWorkerPool(n, mode, T) ==
  [pc |-> "on", numWorkers |-> n, tasks |-> <<>>, tasksClosed |-> FALSE,
   results |-> <<>>, resultsClosed |-> FALSE,
   w |-> [i \in 1..n |-> [pc |-> "new", task |-> NoTask,
                          taken |-> <<>>, sent |-> 0]],
   wg |-> 0, nextID |-> 0, got |-> <<>>, crashed |-> FALSE,
   mode |-> mode, T |-> T]

InitWp ==
  \E n \in 1..MaxPoolWorkers : wp = NewWorkerPool(n, "free", MaxTasks)

\* pool := NewWorkerPool(n) of a client that submits T tasks, then receives
InitWpBatch ==
  \E n \in 1..MaxPoolWorkers, T \in 1..BatchTasks :
    wp = NewWorkerPool(n, "batch", T)

WpIds == IF wp.pc = "on" THEN DOMAIN wp.w ELSE {}

\* cap(wp.tasks) = cap(wp.results) = n
WpChanCap == wp.numWorkers

\* Start(): wg.Add(1) and go wp.worker(i) for every i
WpStart ==
  /\ wp.pc = "on"
  /\ \A i \in WpIds : wp.w[i].pc = "new"
  /\ wp' = [wp EXCEPT !.w = [i \in WpIds |-> [wp.w[i] EXCEPT !.pc = "range"]],
                      !.wg = wp.numWorkers]
  /\ UNCHANGED notWp

\* Submit(task): the client sends a task on wp.tasks
WpSubmit(kind) ==
  /\ wp.pc = "on"
  /\ ~wp.crashed
  /\ ~wp.tasksClosed
  /\ wp.nextID < wp.T
  /\ wp.mode = "batch" => kind = "ok"
  /\ Len(wp.tasks) < WpChanCap
  /\ wp' = [wp EXCEPT !.tasks = Append(@, [ID |-> wp.nextID, kind |-> kind]),
                      !.nextID = @ + 1]
  /\ UNCHANGED notWp

\* worker: for task := range wp.tasks receives a task
WpWorkerRecv(i) ==
  /\ wp.pc = "on"
  /\ ~wp.crashed
  /\ wp.w[i].pc = "range"
  /\ wp.tasks # <<>>
  /\ wp' = [wp EXCEPT !.w[i].pc = "process",
                      !.w[i].task = Head(wp.tasks),
                      !.w[i].taken = Append(@, Head(wp.tasks).ID),
                      !.tasks = ChanRest(@)]
  /\ UNCHANGED notWp

\* a panic in task.Process unwinds to the deferred func of worker, whose
\* recover() returns non-nil: the panic stops there
WorkerOnPanicNoRecover(i) == [wp EXCEPT !.crashed = TRUE]
WorkerOnPanic(i) == [wp EXCEPT !.w[i].pc = "recover"]

\* worker: val, err := task.Process(task.Data)
WpWorkerProcess(i) ==
  /\ wp.pc = "on"
  /\ ~wp.crashed
  /\ wp.w[i].pc = "process"
  /\ wp' = IF wp.w[i].task.kind = "panic"
             THEN WorkerOnPanic(i)
             ELSE [wp EXCEPT !.w[i].pc = "send"]
  /\ UNCHANGED notWp

\* the Result of a task whose Process returned
TaskResultNoError(task) == [TaskID |-> task.ID, Error |-> FALSE]
TaskResult(task) == [TaskID |-> task.ID, Error |-> task.kind = "err"]

\* the Result sent by the deferred func after a panic
PanicResult == [TaskID |-> -1, Error |-> TRUE]

\* worker: wp.results <- Result{TaskID: task.ID, Value: val, Error: err}
WpWorkerSend(i) ==
  /\ wp.pc = "on"
  /\ ~wp.crashed
  /\ wp.w[i].pc = "send"
  /\ Len(wp.results) < WpChanCap
  /\ wp' = [wp EXCEPT !.results = Append(@, TaskResult(wp.w[i].task)),
                      !.w[i].sent = @ + 1,
                      !.w[i].pc = "range"]
  /\ UNCHANGED notWp

\* worker: the deferred func sends the panic Result, then the deferred
\* wp.wg.Done() runs and the worker goroutine ends
WpWorkerRecoverSilent(i) ==
  /\ wp.pc = "on"
  /\ ~wp.crashed
  /\ wp.w[i].pc = "recover"
  /\ wp' = [wp EXCEPT !.w[i].pc = "returned", !.wg = @ - 1]
  /\ UNCHANGED notWp

WpWorkerRecover(i) ==
  /\ wp.pc = "on"
  /\ ~wp.crashed
  /\ wp.w[i].pc = "recover"
  /\ Len(wp.results) < WpChanCap
  /\ wp' = [wp EXCEPT !.results = Append(@, PanicResult),
                      !.w[i].sent = @ + 1,
                      !.w[i].pc = "returned",
                      !.wg = @ - 1]
  /\ UNCHANGED notWp

\* worker: range wp.tasks ends; recover() returns nil; wp.wg.Done()
WpWorkerTasksClosed(i) ==
  /\ wp.pc = "on"
  /\ ~wp.crashed
  /\ wp.w[i].pc = "range"
  /\ wp.tasks = <<>>
  /\ wp.tasksClosed
  /\ wp' = [wp EXCEPT !.w[i].pc = "returned", !.wg = @ - 1]
  /\ UNCHANGED notWp

\* the client receives a Result: result := <-pool.Results()
WpClientRecv ==
  /\ wp.pc = "on"
  /\ ~wp.crashed
  /\ wp.mode = "batch" => wp.nextID = wp.T
  /\ wp.results # <<>>
  /\ wp' = [wp EXCEPT !.got = Append(@, Head(wp.results)),
                      !.results = ChanRest(@)]
  /\ UNCHANGED notWp

\* graceful shutdown, first step: close(wp.tasks)
WpCloseTasks ==
  /\ wp.pc = "on"
  /\ ~wp.crashed
  /\ \A i \in WpIds : wp.w[i].pc # "new"
  /\ wp.mode = "batch" => Len(wp.got) = wp.T
  /\ ~wp.tasksClosed
  /\ wp' = [wp EXCEPT !.tasksClosed = TRUE]
  /\ UNCHANGED notWp

\* graceful shutdown, the rest: wp.wg.Wait() returns, close(wp.results)
WpCloseResults ==
  /\ wp.pc = "on"
  /\ ~wp.crashed
  /\ wp.tasksClosed
  /\ wp.wg = 0
  /\ ~wp.resultsClosed
  /\ wp' = [wp EXCEPT !.resultsClosed = TRUE]
  /\ UNCHANGED notWp

NextWp ==
  \/ WpStart
  \/ \E kind \in Kinds : WpSubmit(kind)
  \/ \E i \in WpIds : WpWorkerRecv(i)
  \/ \E i \in WpIds : WpWorkerProcess(i)
  \/ \E i \in WpIds : WpWorkerSend(i)
  \/ \E i \in WpIds : WpWorkerRecover(i)
  \/ \E i \in WpIds : WpWorkerTasksClosed(i)
  \/ WpClientRecv
  \/ WpCloseTasks
  \/ WpCloseResults

\* the pool with the client of TestWorkerPool: no task panics
NextWpBatch ==
  \/ WpStart
  \/ WpSubmit("ok")
  \/ \E i \in WpIds : WpWorkerRecv(i)
  \/ \E i \in WpIds : WpWorkerProcess(i)
  \/ \E i \in WpIds : WpWorkerSend(i)
  \/ \E i \in WpIds : WpWorkerTasksClosed(i)
  \/ WpClientRecv
  \/ WpCloseTasks
  \/ WpCloseResults

(***************************************************************************)
(* esercizio-10-pipeline: generator -> fanOut(worker) -> fanIn             *)
(*   values    the values given to generator, whose output is `in`         *)
(*   ctxDone   ctx.Done() is closed                                        *)
(*   gidx, gpc the generator: position, "run" | "returned" (in closed)     *)
(*   wk[i]     worker i: pc "range" | "select" | "returned" (its out       *)
(*             closed), v the result it is about to send                   *)
(*   mx[i]     multiplex goroutine of channel i: pc "range" | "select" |   *)
(*             "returned", v the value it is about to forward; there is    *)
(*             one for every channel given to fanIn (channels 1..m)        *)
(*   wg        the WaitGroup of fanIn                                      *)
(*   outClosed the merged channel is closed                                *)
(*   cpc       the consumer ranging over the merged channel                *)
(*   got       the values the consumer received                            *)
(***************************************************************************)
FanWorkers == 2     \* workers given to fanOut

FanIds == 1..FanWorkers

\* result := heavyComputation(n); the README does not show the function, its
\* expected output for the values 1..10 is 2, 4, ..., 20
HeavyComputation(n) == n * 2

\* fanOut(ctx, in, FanWorkers) and fanIn(ctx, channels[:m]...): the caller
\* merges all the channels fanOut returned (m = FanWorkers) or only some
InitFan ==
  \E values \in Numbered, m \in 1..FanWorkers :
    fan = [pc |-> "on", values |-> values, ctxDone |-> FALSE, gidx |-> 1,
           gpc |-> "run",
           wk |-> [i \in FanIds |-> [pc |-> "range", v |-> 0]],
           mx |-> [i \in 1..m |-> [pc |-> "range", v |-> 0]],
           wg |-> m, outClosed |-> FALSE, cpc |-> "range",
           got |-> <<>>]

\* the channels given to fanIn
FanMerged == IF fan.pc = "on" THEN DOMAIN fan.mx ELSE {}

\* cancel() is called
FanCancel ==
  /\ fan.pc = "on"
  /\ ~fan.ctxDone
  /\ fan' = [fan EXCEPT !.ctxDone = TRUE]
  /\ UNCHANGED notFan

\* generator: case out <- v, received by worker i at `for n := range in`,
\* which computes heavyComputation(n) and reaches its select
FanGenSend(i) ==
  /\ fan.pc = "on"
  /\ fan.gpc = "run"
  /\ fan.gidx <= Len(fan.values)
  /\ fan.wk[i].pc = "range"
  /\ fan' = [fan EXCEPT !.wk[i] = [pc |-> "select",
                                   v |-> HeavyComputation(fan.values[fan.gidx])],
                        !.gidx = @ + 1]
  /\ UNCHANGED notFan

\* generator: case <-ctx.Done(): return, deferred close(out)
FanGenCancelled ==
  /\ fan.pc = "on"
  /\ fan.gpc = "run"
  /\ fan.gidx <= Len(fan.values)
  /\ CtxDone(fan)
  /\ fan' = [fan EXCEPT !.gpc = "returned"]
  /\ UNCHANGED notFan

\* generator: range values exhausted, deferred close(out)
FanGenLoopEnd ==
  /\ fan.pc = "on"
  /\ fan.gpc = "run"
  /\ fan.gidx > Len(fan.values)
  /\ fan' = [fan EXCEPT !.gpc = "returned"]
  /\ UNCHANGED notFan

\* worker i: case out <- result, received by multiplex(c) at `for v := range c`
FanWorkerSend(i) ==
  /\ fan.pc = "on"
  /\ fan.wk[i].pc = "select"
  /\ i \in FanMerged
  /\ fan.mx[i].pc = "range"
  /\ fan' = [fan EXCEPT !.wk[i].pc = "range",
                        !.mx[i] = [pc |-> "select", v |-> fan.wk[i].v]]
  /\ UNCHANGED notFan

\* worker i: case <-ctx.Done(): return, deferred close(out)
FanWorkerCancelled(i) ==
  /\ fan.pc = "on"
  /\ fan.wk[i].pc = "select"
  /\ CtxDone(fan)
  /\ fan' = [fan EXCEPT !.wk[i].pc = "returned"]
  /\ UNCHANGED notFan

\* worker i: range in ends because in is closed, deferred close(out)
FanWorkerInputClosed(i) ==
  /\ fan.pc = "on"
  /\ fan.wk[i].pc = "range"
  /\ fan.gpc = "returned"
  /\ fan' = [fan EXCEPT !.wk[i].pc = "returned"]
  /\ UNCHANGED notFan

\* multiplex i: case out <- v, received by the consumer
FanMuxSend(i) ==
  /\ fan.pc = "on"
  /\ i \in FanMerged
  /\ fan.mx[i].pc = "select"
  /\ fan.cpc = "range"
  /\ fan' = [fan EXCEPT !.mx[i].pc = "range", !.got = Append(@, fan.mx[i].v)]
  /\ UNCHANGED notFan

\* multiplex i: case <-ctx.Done(): return, deferred wg.Done()
FanMuxCancelled(i) ==
  /\ fan.pc = "on"
  /\ i \in FanMerged
  /\ fan.mx[i].pc = "select"
  /\ CtxDone(fan)
  /\ fan' = [fan EXCEPT !.mx[i].pc = "returned", !.wg = @ - 1]
  /\ UNCHANGED notFan

\* multiplex i: range c ends because c is closed, deferred wg.Done()
FanMuxInputClosedEarly(i) ==
  /\ fan.pc = "on"
  /\ i \in FanMerged
  /\ fan.mx[i].pc = "range"
  /\ fan' = [fan EXCEPT !.mx[i].pc = "returned", !.wg = @ - 1]
  /\ UNCHANGED notFan

FanMuxInputClosed(i) ==
  /\ fan.pc = "on"
  /\ i \in FanMerged
  /\ fan.mx[i].pc = "range"
  /\ fan.wk[i].pc = "returned"
  /\ fan' = [fan EXCEPT !.mx[i].pc = "returned", !.wg = @ - 1]
  /\ UNCHANGED notFan

\* go func() { wg.Wait(); close(out) }()
FanCloseOut ==
  /\ fan.pc = "on"
  /\ fan.wg = 0
  /\ ~fan.outClosed
  /\ fan' = [fan EXCEPT !.outClosed = TRUE]
  /\ UNCHANGED notFan

\* the consumer's range over the merged channel ends
FanConsumerClosed ==
  /\ fan.pc = "on"
  /\ fan.cpc = "range"
  /\ fan.outClosed
  /\ fan' = [fan EXCEPT !.cpc = "done"]
  /\ UNCHANGED notFan

NextFan ==
  \/ FanCancel
  \/ \E i \in FanIds : FanGenSend(i)
  \/ FanGenCancelled
  \/ FanGenLoopEnd
  \/ \E i \in FanIds : FanWorkerSend(i)
  \/ \E i \in FanIds : FanWorkerCancelled(i)
  \/ \E i \in FanIds : FanWorkerInputClosed(i)
  \/ \E i \in FanIds : FanMuxSend(i)
  \/ \E i \in FanIds : FanMuxCancelled(i)
  \/ \E i \in FanIds : FanMuxInputClosed(i)
  \/ FanCloseOut
  \/ FanConsumerClosed

(***************************************************************************)
(* The specification of the channel programs: one of them runs             *)
(***************************************************************************)

\* no limiter exists in these programs
LimRest ==
  /\ maxTokens = 0 /\ tokens = 0 /\ tickerRunning = FALSE /\ tickerC = 0
  /\ refillPc = "off" /\ ticks = 0 /\ deposits = 0 /\ stopped = FALSE
  /\ waitersAtStop = {} /\ cpc = <<>> /\ acquired = 0 /\ ret = <<>>
  /\ doneC = 0 /\ doneFired = FALSE /\ total = 0 /\ mainPc = "off"

Init ==
  /\ LimRest
  /\ store = Off /\ api = Off /\ bfo = Off /\ wf = Off /\ tmo = Off
  /\ \/ InitPipe8 /\ pool8 = Off /\ chain = Off /\ fan = Off /\ scraper = Off /\ wp = Off
     \/ pipe8 = Off /\ InitPool8 /\ chain = Off /\ fan = Off /\ scraper = Off /\ wp = Off
     \/ pipe8 = Off /\ pool8 = Off /\ InitChain /\ fan = Off /\ scraper = Off /\ wp = Off
     \/ pipe8 = Off /\ pool8 = Off /\ chain = Off /\ InitFan /\ scraper = Off /\ wp = Off
     \/ pipe8 = Off /\ pool8 = Off /\ chain = Off /\ fan = Off /\ InitScraper /\ wp = Off
     \/ pipe8 = Off /\ pool8 = Off /\ chain = Off /\ fan = Off /\ scraper = Off /\ InitWp

Next ==
  \/ NextPipe8
  \/ NextPool8
  \/ NextChain
  \/ NextFan
  \/ NextScraper
  \/ NextWp

Spec == Init /\ [][Next]_vars

\* The Go scheduler runs every goroutine that can take a step.  A stage or
\* worker goroutine is treated fairly on all its steps; the final consumer is
\* not obliged to receive (it may stop reading), only to notice a closed
\* channel when it is ranging over it.
Fairness ==
  /\ WF_vars(Pipe8Cancelled \/ Pipe8LoopEnd)
  /\ WF_vars(Pipe8ConsumerClosed)
  /\ \A i \in PoolIds :
       WF_vars(Pool8WorkerCancelled(i) \/ Pool8WorkerRecv(i)
               \/ Pool8WorkerJobsClosed(i) \/ Pool8WorkerWork(i)
               \/ Pool8WorkerSend(i) \/ Pool8WorkerSendCancelled(i))
  /\ WF_vars(GenSend \/ GenCancelled \/ GenLoopEnd)
  /\ \A k \in Stages :
       WF_vars(StageSend(k) \/ StageCancelled(k) \/ StageInputClosed(k))
  /\ WF_vars(ChainConsumerClosed)
  /\ WF_vars((\E i \in FanIds : FanGenSend(i)) \/ FanGenCancelled \/ FanGenLoopEnd)
  /\ \A i \in FanIds :
       WF_vars(FanWorkerSend(i) \/ FanWorkerCancelled(i) \/ FanWorkerInputClosed(i))
  /\ \A i \in FanIds : WF_vars(FanMuxCancelled(i) \/ FanMuxInputClosed(i))
  /\ WF_vars(FanCloseOut)
  /\ WF_vars(FanConsumerClosed)

\* The programs that take a context.Context: one of them runs
InitCtx ==
  /\ LimRest
  /\ scraper = Off /\ wp = Off /\ store = Off /\ api = Off /\ bfo = Off /\ wf = Off /\ tmo = Off
  /\ \/ InitPipe8 /\ pool8 = Off /\ chain = Off /\ fan = Off
     \/ pipe8 = Off /\ InitPool8 /\ chain = Off /\ fan = Off
     \/ pipe8 = Off /\ pool8 = Off /\ InitChain /\ fan = Off
     \/ pipe8 = Off /\ pool8 = Off /\ chain = Off /\ InitFan

NextCtx ==
  \/ NextPipe8
  \/ NextPool8
  \/ NextChain
  \/ NextFan

SpecCtx == InitCtx /\ [][NextCtx]_vars

\* the web scraper alone; the Go scheduler runs a goroutine that can take a
\* step (every fetch returns), and no goroutine of the scraper loops for ever
InitScraperOnly ==
  /\ LimRest
  /\ pipe8 = Off /\ pool8 = Off /\ chain = Off /\ fan = Off
  /\ wp = Off /\ store = Off /\ api = Off /\ bfo = Off /\ wf = Off /\ tmo = Off
  /\ InitScraper

SpecScraper == InitScraperOnly /\ [][NextScraper]_vars

FairSpecScraper == SpecScraper /\ WF_vars(NextScraper)

\* the worker pool with the client of TestWorkerPool alone
InitWpBatchOnly ==
  /\ LimRest
  /\ pipe8 = Off /\ pool8 = Off /\ chain = Off /\ fan = Off
  /\ scraper = Off /\ store = Off /\ api = Off /\ bfo = Off /\ wf = Off /\ tmo = Off
  /\ InitWpBatch

SpecWpBatch == InitWpBatchOnly /\ [][NextWpBatch]_vars

FairSpecCtx == SpecCtx /\ Fairness

(***************************************************************************)
(* Properties of the channel programs                                      *)
(***************************************************************************)

\* number of positions of the sequence s that hold x
Occ(s, x) == Cardinality({i \in DOMAIN s : s[i] = x})

\* sum of the numbers f[i], i in ids
RECURSIVE SumOver(_, _)
SumOver(f, ids) ==
  IF ids = {} THEN 0
  ELSE LET i == CHOOSE j \in ids : TRUE IN f[i] + SumOver(f, ids \ {i})

\* how often the workers w together have received the item x
TakenBy(w, x) == SumOver([i \in DOMAIN w |-> Occ(w[i].taken, x)], DOMAIN w)

\* how many results the workers w together have sent
SentBy(w) == SumOver([i \in DOMAIN w |-> w[i].sent], DOMAIN w)

\* C3: once the context is cancelled every stage and worker goroutine
\* eventually returns and every stage output is eventually closed, so a
\* consumer ranging over the output stops ranging; the consumer is not
\* required to read.
C3_CancellationLiveness ==
  (\/ pipe8.pc = "on" /\ pipe8.ctxDone
   \/ pool8.pc = "on" /\ pool8.ctxDone
   \/ chain.pc = "on" /\ chain.ctxDone
   \/ fan.pc = "on" /\ fan.ctxDone)
  ~> (\/ /\ pipe8.pc = "on"
         /\ pipe8.gpc = "returned" /\ pipe8.closed /\ pipe8.cpc # "range"
      \/ /\ pool8.pc = "on"
         /\ \A i \in PoolIds : pool8.w[i].pc = "returned"
      \/ /\ chain.pc = "on"
         /\ chain.gpc = "returned"
         /\ \A k \in Stages : chain.st[k].pc = "returned"
         /\ chain.cpc = "done"
      \/ /\ fan.pc = "on"
         /\ fan.gpc = "returned"
         /\ \A i \in FanIds : fan.wk[i].pc = "returned"
         /\ \A i \in FanMerged : fan.mx[i].pc = "returned"
         /\ fan.outClosed /\ fan.cpc = "done")

\* the stage was blocked sending to a consumer that does not read, the
\* context was cancelled, and the stage returned and closed out
C3_Witness ==
  /\ pipe8.pc = "on"
  /\ pipe8.ctxDone
  /\ pipe8.cpc = "sleep"
  /\ pipe8.idx <= Len(pipe8.nums)
  /\ pipe8.gpc = "returned"
  /\ pipe8.closed

\* C6: every item sent on the shared input channel is received by exactly
\* one worker: at any moment the items received by the workers plus those
\* still in the channel are the items sent, each once, and when all workers
\* have ended without cancellation every item sent has been received.
C6_FanOutComplete ==
  /\ scraper.pc = "on" =>
       /\ \A x \in 1..MaxLen :
            TakenBy(scraper.w, x) = Occ(Prefix(scraper.urls, scraper.fidx - 1), x)
       /\ (\A i \in ScraperIds : scraper.w[i].pc = "returned")
            => scraper.fidx - 1 = Len(scraper.urls)
  /\ pool8.pc = "on" =>
       /\ \A x \in 1..PoolJobs :
            TakenBy(pool8.w, x) + Occ(pool8.jobs, x)
              = IF x < pool8.jobID THEN 1 ELSE 0
       /\ (~pool8.ctxDone /\ \A i \in PoolIds : pool8.w[i].pc = "returned")
            => \A x \in 1..PoolJobs : TakenBy(pool8.w, x) = 1
  /\ wp.pc = "on" =>
       /\ \A id \in 0..(MaxTasks - 1) :
            TakenBy(wp.w, id) + Occ([k \in DOMAIN wp.tasks |-> wp.tasks[k].ID], id)
              = IF id < wp.nextID THEN 1 ELSE 0
       /\ (\A i \in WpIds : wp.w[i].pc = "returned")
            => \A id \in 0..(wp.nextID - 1) : TakenBy(wp.w, id) = 1

\* C7: the merged output is closed only when all its sources are closed and
\* no goroutine can send on it any more, also under cancellation.
C7_FanInClosure ==
  /\ fan.pc = "on" =>
       (fan.outClosed => \A i \in FanMerged : /\ fan.mx[i].pc = "returned"
                                              /\ fan.wk[i].pc = "returned")
  /\ scraper.pc = "on" =>
       (scraper.resultsClosed =>
          \A i \in ScraperIds : scraper.w[i].pc = "returned")

\* C8: a worker has sent exactly one Result for every item it received,
\* except the one it is still working on, whether processing returned a
\* value, an error, or panicked; every Result sent belongs to a received
\* item, and a worker that has ended has sent one Result per item.
C8_OneResultPerItem ==
  /\ wp.pc = "on" =>
       /\ \A i \in WpIds :
            wp.w[i].sent
              + (IF wp.w[i].pc \in {"process", "send", "recover"} THEN 1 ELSE 0)
              = Len(wp.w[i].taken)
       /\ Len(wp.got) + Len(wp.results) = SentBy(wp.w)
  /\ scraper.pc = "on" =>
       /\ \A i \in ScraperIds :
            scraper.w[i].sent
              + (IF scraper.w[i].pc \in {"fetch", "send"} THEN 1 ELSE 0)
              = Len(scraper.w[i].taken)
       /\ Len(scraper.got) = SentBy(scraper.w)
       /\ scraper.mpc = "done" => Len(scraper.got) = Len(scraper.urls)

\* one worker received a task that returned a value, one that returned an
\* error and one that panicked, and the client holds the three Results
C8_Witness ==
  /\ wp.pc = "on"
  /\ \E i \in WpIds : wp.w[i].pc = "returned" /\ wp.w[i].sent = 3
                      /\ ~wp.tasksClosed
  /\ Len(wp.got) = 3
  /\ \E k \in DOMAIN wp.got : wp.got[k].TaskID >= 0 /\ ~wp.got[k].Error
  /\ \E k \in DOMAIN wp.got : wp.got[k].TaskID >= 0 /\ wp.got[k].Error
  /\ \E k \in DOMAIN wp.got : wp.got[k] = PanicResult

\* what the consumer must receive: f applied to every input, in input order
Expected8(nums) == [i \in 1..Len(nums) |-> nums[i] * 2]
ExpectedChain(values) == [i \in 1..Len(values) |-> (values[i] * 2) + 10]

\* C9: a single-goroutine stage, and a chain of them, emits one output per
\* input in input order: the consumer always holds an initial part of
\* [f(x1)..f(xn)], and without cancellation it holds all of it when it sees
\* the channel closed.
C9_OrderPreserved ==
  /\ pipe8.pc = "on" =>
       /\ IsPrefix(pipe8.got, Expected8(pipe8.nums))
       /\ (pipe8.cpc = "done" /\ ~pipe8.ctxDone)
            => pipe8.got = Expected8(pipe8.nums)
  /\ chain.pc = "on" =>
       /\ IsPrefix(chain.got, ExpectedChain(chain.values))
       /\ (chain.cpc = "done" /\ ~chain.ctxDone)
            => chain.got = ExpectedChain(chain.values)

\* doubling then adding 10 turned [1,2,1] into [12,14,12], channel closed
C9_Witness ==
  /\ chain.pc = "on"
  /\ chain.cpc = "done"
  /\ ~chain.ctxDone
  /\ chain.values = <<1, 2, 1>>
  /\ chain.got = <<12, 14, 12>>

\* C10: a panic of task.Process is caught in the worker that ran it and
\* becomes a Result with a non-nil error; it ends neither a sibling worker
\* nor the process.
C10_PanicContained ==
  [][wp.pc = "on" =>
       /\ ~wp'.crashed
       /\ \A i \in WpIds :
            (wp.w[i].pc = "process" /\ wp.w[i].task.kind = "panic"
             /\ wp'.w[i].pc # "process")
            => /\ wp'.w[i].pc = "recover"
               /\ \A j \in WpIds \ {i} : wp'.w[j] = wp.w[j]
               /\ wp'.wg = wp.wg
       /\ \A i \in WpIds :
            (wp.w[i].pc = "recover" /\ wp'.w[i].pc # "recover")
            => /\ Len(wp'.results) = Len(wp.results) + 1
               /\ wp'.results[Len(wp'.results)].Error
               /\ \A j \in WpIds \ {i} : wp'.w[j] = wp.w[j]]_vars

\* a worker ended by a panic, its error Result reached the client, and a
\* sibling worker delivered a Result of its own
C10_Witness ==
  /\ wp.pc = "on"
  /\ ~wp.tasksClosed
  /\ \E i, j \in WpIds :
       /\ i # j
       /\ wp.w[i].pc = "returned"
       /\ wp.w[j].pc = "range" /\ wp.w[j].sent >= 1
  /\ \E k \in DOMAIN wp.got : wp.got[k].TaskID = -1 /\ wp.got[k].Error
  /\ \E k \in DOMAIN wp.got : wp.got[k].TaskID >= 0

\* C11: a stage closes its output exactly once (the close happens in the
\* one step in which its goroutine returns, never again), only when its
\* input is exhausted or the cancellation was observed; nothing is sent on
\* an output after its close, and the step that closes a stage's output
\* leaves the stage's input channel as it was.
C11_CloseOnce ==
  [][/\ pipe8.pc = "on" =>
          /\ pipe8'.closed # pipe8.closed
               => /\ ~pipe8.closed
                  /\ pipe8.gpc = "run" /\ pipe8'.gpc = "returned"
                  /\ (pipe8.idx > Len(pipe8.nums) \/ pipe8.ctxDone)
          /\ pipe8'.gpc # pipe8.gpc => pipe8'.closed # pipe8.closed
          /\ pipe8.closed => /\ pipe8'.got = pipe8.got
                             /\ pipe8'.idx = pipe8.idx
                             /\ pipe8'.gpc = pipe8.gpc
                             /\ pipe8'.nums = pipe8.nums
     /\ chain.pc = "on" =>
          /\ chain'.gpc # chain.gpc
               => /\ chain.gpc = "run" /\ chain'.gpc = "returned"
                  /\ (chain.gidx > Len(chain.values) \/ chain.ctxDone)
                  /\ chain'.st = chain.st
          /\ chain.gpc = "returned" => chain'.gidx = chain.gidx
          /\ \A k \in Stages :
               /\ (chain'.st[k].pc = "returned" /\ chain.st[k].pc # "returned")
                    => /\ \/ /\ chain.st[k].pc = "range"
                             /\ IF k = 1 THEN chain.gpc = "returned"
                                         ELSE chain.st[k - 1].pc = "returned"
                          \/ chain.st[k].pc = "select" /\ chain.ctxDone
                       /\ chain'.gpc = chain.gpc
                       /\ \A j \in Stages \ {k} : chain'.st[j] = chain.st[j]
                       /\ chain'.got = chain.got
               /\ chain.st[k].pc = "returned"
                    => /\ chain'.st[k] = chain.st[k]
                       /\ k < NumStages /\ chain.st[k + 1].pc # "select"
                            => chain'.st[k + 1].pc # "select"
                       /\ k = NumStages => chain'.got = chain.got]_vars

\* both ways a stage output gets closed have happened in one run: the
\* second mapStage saw the cancellation while it held a value, the first one
\* found its input closed by the generator, which had sent every value
C11_Witness ==
  /\ chain.pc = "on"
  /\ chain.ctxDone
  /\ chain.gpc = "returned"
  /\ chain.gidx > Len(chain.values)
  /\ Len(chain.values) >= 2
  /\ \A k \in Stages : chain.st[k].pc = "returned"
  /\ Len(chain.got) + 1 = Len(chain.values)
  /\ chain.cpc = "done"

\* C12: once the context is done no value is sent on a stage's output any
\* more: the consumer of pipeline, and the consumer of the channel merged by
\* fanIn, receive nothing in a step that starts with ctx.Done() closed.
C12_NoEmitAfterCancel ==
  [][/\ (pipe8.pc = "on" /\ pipe8.ctxDone) => pipe8'.got = pipe8.got
     /\ (fan.pc = "on" /\ fan.ctxDone) => fan'.got = fan.got]_vars

\* C13: a worker whose item failed (Process returned an error, fetch
\* returned a PageInfo with Error) sends a Result carrying that error and is
\* back at its receive loop; the step changes no other worker, closes no
\* channel, changes no WaitGroup and drops no Result already sent.
C13_ItemErrorNotFatal ==
  [][/\ wp.pc = "on" =>
          \A i \in WpIds :
            /\ (wp.w[i].pc = "process" /\ wp.w[i].task.kind = "err"
                /\ wp'.w[i] # wp.w[i])
                 => /\ wp'.w[i].pc = "send"
                    /\ wp'.w[i].task = wp.w[i].task
            /\ (wp.w[i].pc = "send" /\ wp.w[i].task.kind = "err"
                /\ wp'.w[i] # wp.w[i])
                 => /\ wp'.w[i].pc = "range"
                    /\ wp'.results
                         = Append(wp.results,
                                  [TaskID |-> wp.w[i].task.ID, Error |-> TRUE])
                    /\ \A j \in WpIds \ {i} : wp'.w[j] = wp.w[j]
                    /\ wp'.tasks = wp.tasks
                    /\ wp'.tasksClosed = wp.tasksClosed
                    /\ wp'.resultsClosed = wp.resultsClosed
                    /\ wp'.wg = wp.wg
                    /\ wp'.got = wp.got
                    /\ ~wp'.crashed
     /\ scraper.pc = "on" =>
          \A i \in ScraperIds :
            (scraper.w[i].pc = "send" /\ scraper.w[i].err
             /\ scraper'.w[i] # scraper.w[i])
              => /\ scraper'.w[i].pc = "range"
                 /\ scraper'.got
                      = Append(scraper.got,
                               [URL |-> scraper.w[i].url, Error |-> TRUE])
                 /\ scraper'.successes = scraper.successes
                 /\ \A j \in ScraperIds \ {i} : scraper'.w[j] = scraper.w[j]
                 /\ scraper'.jobsClosed = scraper.jobsClosed
                 /\ scraper'.resultsClosed = scraper.resultsClosed
                 /\ scraper'.wg = scraper.wg
                 /\ scraper'.fidx = scraper.fidx]_vars

\* the only worker of a pool ran a task that returned an error and then a
\* task that returned a value; the client holds both Results, in that order
C13_Witness ==
  /\ wp.pc = "on"
  /\ wp.numWorkers = 1
  /\ Len(wp.got) = 2
  /\ wp.got[1] = [TaskID |-> 0, Error |-> TRUE]
  /\ wp.got[2] = [TaskID |-> 1, Error |-> FALSE]
  /\ wp.w[1].pc = "range"

(***************************************************************************)
(* Further properties of the rate limiter                                  *)
(***************************************************************************)

\* C14: right after NewTokenBucketLimiter the bucket is full, and as long as
\* no refill tick has occurred it holds maxTokens minus the tokens taken, so
\* each of the first maxTokens acquisitions, by Wait or by TryWait, that
\* ends before the first tick ends successfully.
C14_StartsFull ==
  [][/\ ticks = 0 => tokens = maxTokens - acquired
     /\ ticks' = 0 => tokens' = maxTokens - acquired'
     /\ \A c \in Callers :
          (ticks = 0 /\ acquired < maxTokens
           /\ cpc[c] \in {"wait", "trywait", "tryexpired"} /\ cpc'[c] = "idle")
            => ret'[c] \in {"ok", "true"}]_vars

\* C15: the refill step never blocks; it adds exactly one token below
\* capacity and nothing at capacity; the bucket grows in no other step, and
\* it shrinks only by one, in the step in which a Wait returns or a TryWait
\* returns true.
C15_RefillAndConsume ==
  [][/\ refillPc = "select" => ENABLED RefillSelect
     /\ refillPc' = "select" => (ENABLED RefillSelect)'
     /\ (refillPc = "select" /\ refillPc' = "recv")
          => tokens' = IF tokens < maxTokens THEN tokens + 1 ELSE tokens
     /\ tokens' > tokens
          => /\ refillPc = "select" /\ refillPc' = "recv"
             /\ cpc' = cpc
     /\ tokens' < tokens
          => /\ tokens' = tokens - 1
             /\ acquired' = acquired + 1
             /\ \E c \in Callers :
                  /\ cpc[c] \in {"wait", "trywait", "tryexpired"}
                  /\ cpc'[c] = "idle"
                  /\ ret'[c] \in {"ok", "true"}
                  /\ \A d \in Callers \ {c} : cpc'[d] = cpc[d]]_vars

\* two tokens were taken and put back by two refills, and a third tick
\* found the bucket full and was dropped
C15_Witness ==
  /\ maxTokens = 2
  /\ tokens = 2
  /\ acquired = 2
  /\ deposits = 2
  /\ ticks = 3
  /\ tickerC = 0
  /\ refillPc = "recv"

\* C16: a TryWait that returns true has taken exactly one token; one that
\* returns false has taken none and returns false only when the bucket
\* holds no token at the time its timeout is taken.
C16_TryWaitOutcome ==
  [][\A c \in Callers :
       (cpc[c] \in {"trywait", "tryexpired"} /\ cpc'[c] = "idle")
         => /\ ret'[c] \in {"true", "false"}
            /\ ret'[c] = "true" => tokens' = tokens - 1
            /\ ret'[c] = "false" => /\ tokens' = tokens
                                    /\ tokens = 0]_vars

\* C17: at every moment the number of successful acquisitions since
\* construction is at most maxTokens plus the number of ticks so far (so
\* with maxTokens = 3 the tenth acquisition needs seven ticks).
C17_RateCeiling == acquired <= maxTokens + ticks /\ deposits <= ticks

\* the ceiling is reached: the initial burst and one token per tick were
\* all taken, some by Wait and some by TryWait
C17_Witness ==
  /\ maxTokens = 2
  /\ ticks >= 2
  /\ acquired = maxTokens + ticks
  /\ tokens = 0
  /\ \E c \in Callers : ret[c] = "ok"
  /\ \E c \in Callers : ret[c] = "true"

(***************************************************************************)
(* Further properties of the channel programs                              *)
(***************************************************************************)

\* C18: a failure of one item cancels the run, so fewer Results than items
\* are emitted: with a single worker, once the first item has failed (its
\* Process returned an error, its fetch failed) its Result is the only one,
\* no Result of a later item is ever emitted.
C18_FatalErrorStopsPipeline ==
  /\ (wp.pc = "on" /\ wp.numWorkers = 1) =>
       \A k \in DOMAIN wp.got :
         wp.got[k] = [TaskID |-> 0, Error |-> TRUE]
           => /\ Len(wp.got) = 1
              /\ wp.results = <<>>
  /\ (scraper.pc = "on" /\ scraper.workers = 1) =>
       \A k \in DOMAIN scraper.got :
         scraper.got[k] = [URL |-> 1, Error |-> TRUE] => Len(scraper.got) = 1

\* C19: without cancellation a fanOut worker that holds a result finds its
\* output channel read: if the channel was given to fanIn, its multiplex
\* goroutine has not returned and is either receiving or forwarding to a
\* consumer that is still ranging over the merged channel.  Only a worker
\* whose channel was left out of the merge can be blocked for good.
C19_NoStallWhenMerged ==
  fan.pc = "on" =>
    \A i \in FanMerged :
      (fan.wk[i].pc = "select" /\ ~fan.ctxDone)
        => /\ fan.mx[i].pc # "returned"
           /\ fan.mx[i].pc = "select" => fan.cpc = "range"

\* only channel 1 was merged: everything else has ended and the merged
\* channel is closed, no cancellation has happened, and worker 2 is blocked
\* on the send of a result that nobody will receive
C19_Witness ==
  /\ fan.pc = "on"
  /\ FanMerged = {1}
  /\ ~fan.ctxDone
  /\ fan.gpc = "returned"
  /\ fan.wk[1].pc = "returned"
  /\ fan.mx[1].pc = "returned"
  /\ fan.outClosed
  /\ fan.cpc = "done"
  /\ fan.wk[2].pc = "select"
  /\ fan.wk[2].v = HeavyComputation(2)
  /\ Len(fan.got) + 1 = Len(fan.values)

(***************************************************************************)
(* esercizio-09-interface-design: Storage, MemoryStorage, FileStorage      *)
(*   impl     "memory" | "file": the implementation behind the interface,  *)
(*            "pair": one storage of each, given the same calls            *)
(*   closed   m.closed / f.closed, by implementation                       *)
(*   data     m.data, a map from keys to values (MemoryStorage)            *)
(*   files    the directory f.baseDir: a map from file names to contents   *)
(*            (FileStorage); it holds what earlier runs have left          *)
(*   last     history: for every key whose last successful mutation was a  *)
(*            Put, in this run or in an earlier one, the value of that Put *)
(*   orphans  the files that were removed or replaced while a client had  *)
(*            them open: they have no name left, and last as long as a     *)
(*            descriptor does                                              *)
(*   cl[c]    client c: pc "idle" | "body" | "putOpen" | "putWrite" |      *)
(*            "putRename" | "getRead", op / key / val the call it is in,   *)
(*            fd the file it has open, buf what its ReadFile has read,     *)
(*            ret what its last call returned                              *)
(* A value is the content of a []byte; a file name is the pair of the      *)
(* encoded key and the suffix behind it.                                   *)
(***************************************************************************)
StoreKeys == {"", "a", "b"}
StoreVals == {"", "x", "y"}

\* the error values a call returns
Nil == "nil"
ErrNotFound == "key not found"
ErrClosed == "storage closed"
ErrNoEnt == "no such file or directory"

\* maps (Go maps, directories): functions with a changing domain
EmptyMap == [x \in {} |-> ""]
MapPut(m, k, v) == [x \in (DOMAIN m) \cup {k} |-> IF x = k THEN v ELSE m[x]]
MapDelete(m, k) == [x \in (DOMAIN m) \ {k} |-> m[x]]

\* base64.RawURLEncoding.EncodeToString([]byte(key)) on the keys tried
EncodeKey(key) == CASE key = "a" -> "YQ" [] key = "b" -> "Yg" [] key = "" -> ""

\* base64.RawURLEncoding.DecodeString(encoded)
DecodeKey(encoded) == CHOOSE key \in StoreKeys \cup {""} : EncodeKey(key) = encoded

\* filepath.Join(f.baseDir, encodeKey(key)+".dat")
PathForKeyBug(key) == [name |-> "", suffix |-> ".dat"]

PathForKey(key) == [name |-> EncodeKey(key), suffix |-> ".dat"]

\* tmpPath := finalPath + ".tmp"
TmpPath(finalPath) == [name |-> finalPath.name, suffix |-> ".dat.tmp"]

\* filepath.Ext(entry.Name())
Ext(path) == IF path.suffix = ".dat" THEN ".dat" ELSE ".tmp"

\* append([]byte(nil), value...): a copy with the same content
CopyBytesBug(value) == ""

CopyBytes(value) == value

\* sort.Strings(keys): position of a key in byte order
KeyRank(key) == CASE key = "" -> 0 [] key = "a" -> 1 [] key = "b" -> 2

RECURSIVE SortStrings(_)
SortStrings(keys) ==
  IF keys = {} THEN <<>>
  ELSE LET first == CHOOSE k \in keys : \A j \in keys : KeyRank(k) <= KeyRank(j)
       IN <<first>> \o SortStrings(keys \ {first})

NoRet == [err |-> "none", val |-> "", keys |-> <<>>]

\* a client's file descriptor: none open, or the name under which the open
\* file is found in the directory, or, for a file that was unlinked since,
\* the number under which it is kept in orphans
NoFd == [name |-> "", suffix |-> "none"]

OrphanFd(i) == [name |-> <<"#1", "#2", "#3">>[i], suffix |-> "gone"]

IdleClient == [pc |-> "idle", op |-> "none", key |-> "", val |-> "", fd |-> NoFd,
               buf |-> "", ret |-> NoRet]

\* the storages: impls is {"memory"}, {"file"}, or both, each with one client
NewStorages(impls, n) ==
  [pc |-> "on", impl |-> IF impls = {"memory", "file"} THEN "pair"
                         ELSE CHOOSE i \in impls : TRUE,
   closed |-> [i \in {"memory", "file"} |-> FALSE],
   data |-> EmptyMap, files |-> EmptyMap, orphans |-> EmptyMap,
   last |-> EmptyMap,
   cl |-> [c \in 1..n |-> IdleClient]]

\* what ./data can hold when NewFileStorage("./data") is called: nothing (a
\* first run, or t.TempDir()), or the .dat files that earlier runs of the
\* program have left for some of LeftKeys, with a value of LeftVals each,
\* and the .tmp file of a Put that was interrupted before its write
LeftKeys == {"a", "b"}

LeftVals == {"x", "y"}

Dirs ==
  UNION {{[path \in {PathForKey(k) : k \in S} \cup T |->
             IF path.suffix = ".dat" THEN left[DecodeKey(path.name)] ELSE ""] :
            left \in [S -> LeftVals], T \in SUBSET {TmpPath(PathForKey("a"))}} :
         S \in SUBSET LeftKeys}

\* the keys the directory holds, each with the value of the Put that left it
StoredIn(dir) ==
  [k \in {DecodeKey(path.name) : path \in {q \in DOMAIN dir : Ext(q) = ".dat"}}
     |-> dir[PathForKey(k)]]

\* NewFileStorage(baseDir): MkdirAll keeps what the directory holds
NewFileStorage(dir, n) ==
  [NewStorages({"file"}, n) EXCEPT !.files = dir, !.last = StoredIn(dir)]

\* createStorage: NewMemoryStorage() or NewFileStorage("./data"), used by n
\* clients
InitStorageOf(n) ==
  \/ store = NewStorages({"memory"}, n)
  \/ \E dir \in Dirs : store = NewFileStorage(dir, n)

StoreClients == IF store.pc = "on" THEN DOMAIN store.cl ELSE {}

\* the implementation client c calls: of a pair of storages, client 1 has
\* the MemoryStorage and client 2 the FileStorage
ImplOf(c) ==
  IF store.impl = "pair" THEN (IF c = 1 THEN "memory" ELSE "file") ELSE store.impl

\* a storage whose methods do not look at closed
StoreClosedBug(c) == FALSE

\* m.closed / f.closed of the storage client c calls
StoreClosed(c) == store.closed[ImplOf(c)]

\* the calls a client makes: <<method, key, value>>
StoreCalls ==
  ({"get", "delete"} \X StoreKeys \X {""})
    \cup ({"put"} \X StoreKeys \X StoreVals)
    \cup ({"list", "close"} \X {""} \X {""})

\* client c calls a method of the Storage interface
StoreCall(c, call) ==
  /\ store.pc = "on" /\ store.impl # "pair"
  /\ store.cl[c].pc = "idle"
  /\ store' = [store EXCEPT !.cl[c] = [pc |-> "body", op |-> call[1],
                                       key |-> call[2], val |-> call[3],
                                       fd |-> NoFd, buf |-> "", ret |-> NoRet]]
  /\ UNCHANGED notStore

\* client c after its call returned (err, value, keys)
Returned(c, err, val, keys) ==
  [store.cl[c] EXCEPT !.pc = "idle", !.fd = NoFd, !.buf = "",
                      !.ret = [err |-> err, val |-> val, keys |-> keys]]

\* ---- MemoryStorage: every method runs under m.mu ----

MemoryGet(c) ==
  /\ store.pc = "on" /\ ImplOf(c) = "memory"
  /\ store.cl[c].pc = "body" /\ store.cl[c].op = "get"
  /\ LET key == store.cl[c].key IN
       store' = [store EXCEPT !.cl[c] =
                   IF StoreClosed(c) THEN Returned(c, ErrClosed, "", <<>>)
                   ELSE IF key \notin DOMAIN store.data
                          THEN Returned(c, ErrNotFound, "", <<>>)
                          ELSE Returned(c, Nil, CopyBytes(store.data[key]), <<>>)]
  /\ UNCHANGED notStore

MemoryPut(c) ==
  /\ store.pc = "on" /\ ImplOf(c) = "memory"
  /\ store.cl[c].pc = "body" /\ store.cl[c].op = "put"
  /\ LET key == store.cl[c].key
         value == store.cl[c].val
     IN store' = IF StoreClosed(c)
                   THEN [store EXCEPT !.cl[c] = Returned(c, ErrClosed, "", <<>>)]
                   ELSE [store EXCEPT
                           !.data = MapPut(@, key, CopyBytes(value)),
                           !.last = MapPut(@, key, value),
                           !.cl[c] = Returned(c, Nil, "", <<>>)]
  /\ UNCHANGED notStore

MemoryDeleteBug(c) ==
  /\ store.pc = "on" /\ ImplOf(c) = "memory"
  /\ store.cl[c].pc = "body" /\ store.cl[c].op = "delete"
  /\ LET key == store.cl[c].key IN
       store' = IF StoreClosed(c)
                  THEN [store EXCEPT !.cl[c] = Returned(c, ErrClosed, "", <<>>)]
                  ELSE [store EXCEPT !.data = MapDelete(@, key),
                                     !.last = MapDelete(@, key),
                                     !.cl[c] = Returned(c, Nil, "", <<>>)]
  /\ UNCHANGED notStore

MemoryDelete(c) ==
  /\ store.pc = "on" /\ ImplOf(c) = "memory"
  /\ store.cl[c].pc = "body" /\ store.cl[c].op = "delete"
  /\ LET key == store.cl[c].key IN
       store' = IF StoreClosed(c)
                  THEN [store EXCEPT !.cl[c] = Returned(c, ErrClosed, "", <<>>)]
                  ELSE IF key \notin DOMAIN store.data
                    THEN [store EXCEPT !.cl[c] = Returned(c, ErrNotFound, "", <<>>)]
                    ELSE [store EXCEPT !.data = MapDelete(@, key),
                                       !.last = MapDelete(@, key),
                                       !.cl[c] = Returned(c, Nil, "", <<>>)]
  /\ UNCHANGED notStore

MemoryList(c) ==
  /\ store.pc = "on" /\ ImplOf(c) = "memory"
  /\ store.cl[c].pc = "body" /\ store.cl[c].op = "list"
  /\ store' = [store EXCEPT !.cl[c] =
                 IF StoreClosed(c) THEN Returned(c, ErrClosed, "", <<>>)
                 ELSE Returned(c, Nil, "", SortStrings(DOMAIN store.data))]
  /\ UNCHANGED notStore

MemoryClose(c) ==
  /\ store.pc = "on" /\ ImplOf(c) = "memory"
  /\ store.cl[c].pc = "body" /\ store.cl[c].op = "close"
  /\ store' = [store EXCEPT !.closed[ImplOf(c)] = TRUE,
                            !.cl[c] = Returned(c, Nil, "", <<>>)]
  /\ UNCHANGED notStore

\* ---- FileStorage ----

\* the content of the file behind a descriptor
Content(s, fd) == IF fd.suffix = "gone" THEN s.orphans[fd] ELSE s.files[fd]

\* the clients that have the file open
Holders(s, fd) == {d \in DOMAIN s.cl : s.cl[d].fd = fd}

\* write(2) through a descriptor at offset 0: the bytes of data replace the
\* first len(data) bytes of the file, what lies beyond them stays
WriteAt(content, data) == data \o SubSeq(content, Len(data) + 1, Len(content))

\* the name `path` is taken out of the directory: the file it named lasts,
\* without a name, while a client has it open
Unlink(s, path) ==
  IF path \notin DOMAIN s.files THEN s
  ELSE IF Holders(s, path) = {} THEN [s EXCEPT !.files = MapDelete(@, path)]
  ELSE LET free == {i \in 1..3 : OrphanFd(i) \notin DOMAIN s.orphans}
           o == OrphanFd(CHOOSE i \in free : \A j \in free : i <= j)
       IN [s EXCEPT !.files = MapDelete(@, path),
                    !.orphans = MapPut(@, o, s.files[path]),
                    !.cl = [d \in DOMAIN s.cl |->
                              IF s.cl[d].fd = path THEN [s.cl[d] EXCEPT !.fd = o]
                              ELSE s.cl[d]]]

\* rename(2): the file named old is named new, the file new named before
\* is unlinked, the descriptors stay on their files
Rename(s, old, new) ==
  LET s1 == Unlink(s, new) IN
    [s1 EXCEPT !.files = MapDelete(MapPut(@, new, @[old]), old),
               !.cl = [d \in DOMAIN s1.cl |->
                         IF s1.cl[d].fd = old THEN [s1.cl[d] EXCEPT !.fd = new]
                         ELSE s1.cl[d]]]

\* close(2) by client c: a file without a name goes with its last descriptor
CloseFd(s, c) ==
  LET fd == s.cl[c].fd
      s1 == [s EXCEPT !.cl[c].fd = NoFd]
  IN IF fd.suffix = "gone" /\ Holders(s1, fd) = {}
       THEN [s1 EXCEPT !.orphans = MapDelete(@, fd)]
       ELSE s1

\* Put: f.closed is read under RLock, and the lock is released
FilePutCheck(c) ==
  /\ store.pc = "on" /\ ImplOf(c) = "file"
  /\ store.cl[c].pc = "body" /\ store.cl[c].op = "put"
  /\ store' = [store EXCEPT !.cl[c] =
                 IF StoreClosed(c) THEN Returned(c, ErrClosed, "", <<>>)
                 ELSE [store.cl[c] EXCEPT !.pc = "putOpen"]]
  /\ UNCHANGED notStore

\* Put: os.WriteFile(tmpPath, ...) opens the temporary file with
\* O_WRONLY|O_CREATE|O_TRUNC: it is created, or the one there is emptied
FilePutOpen(c) ==
  /\ store.pc = "on" /\ ImplOf(c) = "file"
  /\ store.cl[c].pc = "putOpen"
  /\ LET tmpPath == TmpPath(PathForKey(store.cl[c].key)) IN
       store' = [store EXCEPT !.files = MapPut(@, tmpPath, ""),
                              !.cl[c].fd = tmpPath,
                              !.cl[c].pc = "putWrite"]
  /\ UNCHANGED notStore

\* Put: os.WriteFile writes the copy of value at the start of the file it
\* opened, and closes it
FilePutWrite(c) ==
  /\ store.pc = "on" /\ ImplOf(c) = "file"
  /\ store.cl[c].pc = "putWrite"
  /\ LET fd == store.cl[c].fd
         written == WriteAt(Content(store, fd), CopyBytes(store.cl[c].val))
         s1 == IF fd.suffix = "gone" THEN [store EXCEPT !.orphans[fd] = written]
               ELSE [store EXCEPT !.files[fd] = written]
     IN store' = [CloseFd(s1, c) EXCEPT !.cl[c].pc = "putRename"]
  /\ UNCHANGED notStore

\* Put: return os.Rename(tmpPath, finalPath)
FilePutRename(c) ==
  /\ store.pc = "on" /\ ImplOf(c) = "file"
  /\ store.cl[c].pc = "putRename"
  /\ LET finalPath == PathForKey(store.cl[c].key)
         tmpPath == TmpPath(finalPath)
     IN store' =
          IF tmpPath \notin DOMAIN store.files
            THEN [store EXCEPT !.cl[c] = Returned(c, ErrNoEnt, "", <<>>)]
            ELSE [Rename(store, tmpPath, finalPath) EXCEPT
                    !.last = MapPut(@, store.cl[c].key, store.cl[c].val),
                    !.cl[c] = Returned(c, Nil, "", <<>>)]
  /\ UNCHANGED notStore

\* Get, under RLock: os.ReadFile(f.pathForKey(key)) opens the file
FileGet(c) ==
  /\ store.pc = "on" /\ ImplOf(c) = "file"
  /\ store.cl[c].pc = "body" /\ store.cl[c].op = "get"
  /\ LET path == PathForKey(store.cl[c].key) IN
       store' = [store EXCEPT !.cl[c] =
                   IF StoreClosed(c) THEN Returned(c, ErrClosed, "", <<>>)
                   ELSE IF path \notin DOMAIN store.files
                          THEN Returned(c, ErrNotFound, "", <<>>)
                          ELSE [store.cl[c] EXCEPT !.pc = "getRead", !.fd = path]]
  /\ UNCHANGED notStore

\* Get, still under RLock: os.ReadFile reads from where its last read ended;
\* a read that finds nothing more is the end of the file, and what was read
\* is returned
FileGetRead(c) ==
  /\ store.pc = "on" /\ ImplOf(c) = "file"
  /\ store.cl[c].pc = "getRead"
  /\ LET content == Content(store, store.cl[c].fd)
         data == store.cl[c].buf
         more == SubSeq(content, Len(data) + 1, Len(content))
     IN store' = IF more = ""
                   THEN [CloseFd(store, c) EXCEPT
                           !.cl[c] = Returned(c, Nil, data, <<>>)]
                   ELSE [store EXCEPT !.cl[c].buf = data \o more]
  /\ UNCHANGED notStore

\* Delete, under RLock: os.Remove(f.pathForKey(key))
FileDelete(c) ==
  /\ store.pc = "on" /\ ImplOf(c) = "file"
  /\ store.cl[c].pc = "body" /\ store.cl[c].op = "delete"
  /\ LET path == PathForKey(store.cl[c].key) IN
       store' = IF StoreClosed(c)
                  THEN [store EXCEPT !.cl[c] = Returned(c, ErrClosed, "", <<>>)]
                  ELSE IF path \notin DOMAIN store.files
                    THEN [store EXCEPT !.cl[c] = Returned(c, ErrNotFound, "", <<>>)]
                    ELSE [Unlink(store, path) EXCEPT
                            !.last = MapDelete(@, store.cl[c].key),
                            !.cl[c] = Returned(c, Nil, "", <<>>)]
  /\ UNCHANGED notStore

\* List, under RLock: the decoded names of the entries ending in .dat, sorted
FileList(c) ==
  /\ store.pc = "on" /\ ImplOf(c) = "file"
  /\ store.cl[c].pc = "body" /\ store.cl[c].op = "list"
  /\ store' = [store EXCEPT !.cl[c] =
                 IF StoreClosed(c) THEN Returned(c, ErrClosed, "", <<>>)
                 ELSE Returned(c, Nil, "",
                        SortStrings({DecodeKey(path.name) :
                                       path \in {p \in DOMAIN store.files :
                                                   Ext(p) = ".dat"}}))]
  /\ UNCHANGED notStore

\* Close, under Lock, which waits for the Gets that hold RLock:
\* f.closed = true
FileClose(c) ==
  /\ store.pc = "on" /\ ImplOf(c) = "file"
  /\ store.cl[c].pc = "body" /\ store.cl[c].op = "close"
  /\ \A d \in StoreClients : store.cl[d].pc # "getRead"
  /\ store' = [store EXCEPT !.closed[ImplOf(c)] = TRUE,
                            !.cl[c] = Returned(c, Nil, "", <<>>)]
  /\ UNCHANGED notStore

\* ---- a Storage used by one client, call after call ----

InitStorage ==
  /\ LimRest
  /\ pipe8 = Off /\ pool8 = Off /\ chain = Off /\ fan = Off
  /\ scraper = Off /\ wp = Off /\ api = Off /\ bfo = Off /\ wf = Off /\ tmo = Off
  /\ InitStorageOf(1)

NextStorage ==
  \/ \E c \in StoreClients, call \in StoreCalls : StoreCall(c, call)
  \/ \E c \in StoreClients : MemoryGet(c)
  \/ \E c \in StoreClients : MemoryPut(c)
  \/ \E c \in StoreClients : MemoryDelete(c)
  \/ \E c \in StoreClients : MemoryList(c)
  \/ \E c \in StoreClients : MemoryClose(c)
  \/ \E c \in StoreClients : FilePutCheck(c)
  \/ \E c \in StoreClients : FilePutOpen(c)
  \/ \E c \in StoreClients : FilePutWrite(c)
  \/ \E c \in StoreClients : FilePutRename(c)
  \/ \E c \in StoreClients : FileGet(c)
  \/ \E c \in StoreClients : FileGetRead(c)
  \/ \E c \in StoreClients : FileDelete(c)
  \/ \E c \in StoreClients : FileList(c)
  \/ \E c \in StoreClients : FileClose(c)

SpecStorage == InitStorage /\ [][NextStorage]_vars

\* ---- a FileStorage shared by three goroutines (two that put and one
\* that gets at the same time, in any roles): their calls overlap ----

\* the values put: two of different lengths
SharedVals == {"xx", "y"}

\* the calls of the goroutines: Put and Get on one key, and Close
SharedCalls ==
  ({"put"} \X {"a"} \X SharedVals)
    \cup {<<"get", "a", "">>, <<"close", "", "">>}

InitStorageShared ==
  /\ LimRest
  /\ pipe8 = Off /\ pool8 = Off /\ chain = Off /\ fan = Off
  /\ scraper = Off /\ wp = Off /\ api = Off /\ bfo = Off /\ wf = Off /\ tmo = Off
  /\ \E dir \in Dirs : store = NewFileStorage(dir, 3)

NextStorageShared ==
  \/ \E c \in StoreClients, call \in SharedCalls : StoreCall(c, call)
  \/ \E c \in StoreClients : FilePutCheck(c)
  \/ \E c \in StoreClients : FilePutOpen(c)
  \/ \E c \in StoreClients : FilePutWrite(c)
  \/ \E c \in StoreClients : FilePutRename(c)
  \/ \E c \in StoreClients : FileGet(c)
  \/ \E c \in StoreClients : FileGetRead(c)
  \/ \E c \in StoreClients : FileClose(c)

SpecStorageShared == InitStorageShared /\ [][NextStorageShared]_vars

\* ---- a MemoryStorage and a FileStorage given the same calls (TestStorage
\* runs the same test on each): client 1 calls the first, client 2 the second

\* the next call of the sequence is made on both storages
PairCall(call) ==
  /\ store.pc = "on" /\ store.impl = "pair"
  /\ \A c \in StoreClients : store.cl[c].pc = "idle"
  /\ store' = [store EXCEPT !.cl = [c \in StoreClients |->
                                     [pc |-> "body", op |-> call[1],
                                      key |-> call[2], val |-> call[3],
                                      fd |-> NoFd, buf |-> "", ret |-> NoRet]]]
  /\ UNCHANGED notStore

InitStoragePair ==
  /\ LimRest
  /\ pipe8 = Off /\ pool8 = Off /\ chain = Off /\ fan = Off
  /\ scraper = Off /\ wp = Off /\ api = Off /\ bfo = Off /\ wf = Off /\ tmo = Off
  /\ store = NewStorages({"memory", "file"}, 2)

NextStoragePair ==
  \/ \E call \in StoreCalls : PairCall(call)
  \/ \E c \in StoreClients : MemoryGet(c)
  \/ \E c \in StoreClients : MemoryPut(c)
  \/ \E c \in StoreClients : MemoryDelete(c)
  \/ \E c \in StoreClients : MemoryList(c)
  \/ \E c \in StoreClients : MemoryClose(c)
  \/ \E c \in StoreClients : FilePutCheck(c)
  \/ \E c \in StoreClients : FilePutOpen(c)
  \/ \E c \in StoreClients : FilePutWrite(c)
  \/ \E c \in StoreClients : FilePutRename(c)
  \/ \E c \in StoreClients : FileGet(c)
  \/ \E c \in StoreClients : FileGetRead(c)
  \/ \E c \in StoreClients : FileDelete(c)
  \/ \E c \in StoreClients : FileList(c)
  \/ \E c \in StoreClients : FileClose(c)

SpecStoragePair == InitStoragePair /\ [][NextStoragePair]_vars

\* ---------------------------------------------------------------------
\* Properties of the Storage implementations
\* ---------------------------------------------------------------------

\* C20: with either implementation, a Get of key k that returns on an open
\* storage after a Put(k, v) returned nil, with no Delete of k and no other
\* Put of k returning nil since (store.last[k] = v), returns v and a nil
\* error; after Put(k, v2) it is v2 that is returned.
C20_PutThenGet ==
  [][\A c \in StoreClients :
       (/\ store.cl[c].pc \in {"body", "getRead"} /\ store.cl[c].op = "get"
        /\ store'.cl[c].pc = "idle"
        /\ ~StoreClosed(c)
        /\ store.cl[c].key \in DOMAIN store.last)
       => /\ store'.cl[c].ret.err = Nil
          /\ store'.cl[c].ret.val = store.last[store.cl[c].key]]_vars

\* an open FileStorage that holds the empty value under key "a" only, which
\* only a Put of this run can have stored, read back by Get("a")
C20_Witness ==
  /\ store.pc = "on" /\ store.impl = "file" /\ ~store.closed["file"]
  /\ DOMAIN store.last = {"a"} /\ store.last["a"] = ""
  /\ store.cl[1].pc = "idle" /\ store.cl[1].op = "get" /\ store.cl[1].key = "a"
  /\ store.cl[1].ret = [err |-> Nil, val |-> "", keys |-> <<>>]

\* C21: on an open storage, a Get of k returns ErrNotFound exactly when k was
\* never put or its last successful mutation was a Delete (k is not in
\* store.last, which for a FileStorage starts with what earlier runs have put
\* into the directory), so also right after a successful Delete of k; a Delete of a
\* key that is not stored returns ErrNotFound and changes neither the map
\* nor the directory.
C21_NotFoundLaw ==
  [][\A c \in StoreClients :
       (store.cl[c].pc \in {"body", "getRead"} /\ store'.cl[c].pc = "idle"
          /\ ~StoreClosed(c))
       => /\ store.cl[c].op = "get"
             => (store'.cl[c].ret.err = ErrNotFound
                   <=> store.cl[c].key \notin DOMAIN store.last)
          /\ (store.cl[c].op = "delete" /\ store.cl[c].key \notin DOMAIN store.last)
             => /\ store'.cl[c].ret.err = ErrNotFound
                /\ store'.data = store.data
                /\ store'.files = store.files
          /\ (store.cl[c].op = "delete" /\ store.cl[c].key \in DOMAIN store.last)
             => /\ store'.cl[c].ret.err = Nil
                /\ store.cl[c].key \notin DOMAIN store'.last]_vars

\* an open FileStorage after Delete("a") returned nil: "a" was stored, and of
\* the two keys put only "b" is left; then Get("a") answers ErrNotFound
C21_Witness ==
  /\ store.pc = "on" /\ store.impl = "file" /\ ~store.closed["file"]
  /\ store.cl[1].pc = "idle" /\ store.cl[1].op = "delete" /\ store.cl[1].key = "a"
  /\ store.cl[1].ret.err = Nil
  /\ DOMAIN store.last = {"b"}
  /\ DOMAIN store.files = {PathForKey("b")}

\* C22: a MemoryStorage and a FileStorage (on a directory that was empty)
\* given the same sequence of Put, Get, Delete, List and Close calls return
\* the same error, the same value and the same keys at every call.
C22_SameAnswers ==
  (store.pc = "on" /\ store.impl = "pair"
     /\ store.cl[1].pc = "idle" /\ store.cl[2].pc = "idle")
  => store.cl[1].ret = store.cl[2].ret

\* both storages answered List with the two keys, with "b" put first and an
\* empty value under "a"
C22_Witness ==
  /\ store.pc = "on" /\ store.impl = "pair"
  /\ store.cl[1].pc = "idle" /\ store.cl[2].pc = "idle"
  /\ store.cl[1].op = "list" /\ store.cl[2].op = "list"
  /\ store.cl[1].ret = [err |-> Nil, val |-> "", keys |-> <<"a", "b">>]
  /\ store.cl[2].ret = [err |-> Nil, val |-> "", keys |-> <<"a", "b">>]
  /\ store.data = [k \in {"a", "b"} |-> IF k = "a" THEN "" ELSE "y"]
  /\ store.files = [f \in {PathForKey("a"), PathForKey("b")} |->
                      IF f = PathForKey("a") THEN "" ELSE "y"]

\* ---------------------------------------------------------------------
\* Further properties of the worker pool
\* ---------------------------------------------------------------------

\* C23: a client that submits T tasks to a started pool of W workers and
\* only then receives T Results always completes: as long as it has not
\* received its T Results a step of the pool or of the client is possible,
\* and the T Results it ends with carry the T task IDs, each once.
C23_BatchClientCompletes ==
  (wp.pc = "on" /\ wp.mode = "batch")
  => /\ Len(wp.got) < wp.T => ENABLED NextWpBatch
     /\ Len(wp.got) = wp.T
          => {wp.got[j].TaskID : j \in 1..Len(wp.got)} = 0..(wp.T - 1)

(***************************************************************************)
(* esercizio-03-json-api: BookStore and the handlers of /books, /books/{id} *)
(*   books    s.books, a map from IDs to Books                             *)
(*   nextID   s.nextID                                                     *)
(*   resp     the request handled last and what was written as response:   *)
(*            status, and the book, the books or the error of the body     *)
(*   log      the calls of Create and the successful calls of Delete, in   *)
(*            the order in which they held s.mu, with the ID concerned     *)
(* Every method of BookStore runs under s.mu and a handler calls one of    *)
(* them: a request is handled in one step, requests in any order.          *)
(***************************************************************************)
MaxBooks == 2       \* books created

Methods == {"GET", "POST", "PUT", "DELETE", "PATCH"}

\* the request paths: /books/{id} with the IDs tried, and a path without
\* the prefix /books/
Paths == {[prefix |-> FALSE, id |-> ""]} \cup
         {[prefix |-> TRUE, id |-> i] : i \in {"", "1", "2", "7"}}

\* the request bodies: one that is not JSON and the JSON of some Books
BadJSON == [json |-> FALSE, Title |-> "", Author |-> "", ISBN |-> "",
            PublishYear |-> 0, CreatedAt |-> "zero"]

Bodies ==
  {BadJSON} \cup
  {[json |-> TRUE, Title |-> t, Author |-> "A", ISBN |-> "I",
    PublishYear |-> y, CreatedAt |-> at] :
     t \in {" ", " T ", "U"}, y \in {0, 2015}, at \in {"zero", "t0"}}

\* strings.TrimSpace on the strings tried
TrimSpace(str) == CASE str = " " -> "" [] str = " T " -> "T" [] OTHER -> str

\* strconv.FormatInt(n, 10) for 0 < n < 100
Digit(d) == <<"0", "1", "2", "3", "4", "5", "6", "7", "8", "9">>[d + 1]

FormatInt(n) == IF n < 10 THEN Digit(n) ELSE Digit(n \div 10) \o Digit(n % 10)

\* Book{}
NoBook == [ID |-> "", Title |-> "", Author |-> "", ISBN |-> "",
           PublishYear |-> 0, CreatedAt |-> "zero"]

\* json.NewDecoder(r.Body).Decode(&b), with the fields trimmed as the
\* handlers do next
DecodeBook(body) ==
  [ID |-> "", Title |-> TrimSpace(body.Title), Author |-> TrimSpace(body.Author),
   ISBN |-> TrimSpace(body.ISBN), PublishYear |-> body.PublishYear,
   CreatedAt |-> body.CreatedAt]

\* b.Title == "" || b.Author == "" || b.ISBN == "" || b.PublishYear <= 0
InvalidBook(b) == b.Title = "" \/ b.Author = "" \/ b.ISBN = "" \/ b.PublishYear <= 0

\* what a handler wrote
Response(method, path, status, book, books, error) ==
  [method |-> method, path |-> path, status |-> status, book |-> book,
   books |-> books, error |-> error]

\* writeError(w, status, msg)
WriteError(method, path, status, msg) == Response(method, path, status, NoBook, {}, msg)

\* store := &BookStore{books: make(map[string]Book)}
InitApi ==
  api = [pc |-> "on", books |-> [i \in {} |-> NoBook], nextID |-> 0,
         log |-> <<>>,
         resp |-> Response("", [prefix |-> FALSE, id |-> ""], 0, NoBook, {}, "")]

\* BookStore.Create: the book as stored
Created(b, id) ==
  [b EXCEPT !.ID = id,
            !.CreatedAt = IF b.CreatedAt = "zero" THEN "now" ELSE b.CreatedAt]

\* BookStore.Update: the book as stored
Updated(b, old) == [b EXCEPT !.ID = old.ID, !.CreatedAt = old.CreatedAt]

\* BookStore.Delete: s.books after it
Deleted(books, id) == [i \in (DOMAIN books) \ {id} |-> books[i]]

\* BookStore.List: the books, in the order of the map iteration (any)
ListBooks == {api.books[i] : i \in DOMAIN api.books}

\* handleBooks: a request to /books
HandleBooks(method, body) ==
  /\ api.pc = "on"
  /\ LET path == [prefix |-> FALSE, id |-> ""]
         b == DecodeBook(body)
         id == FormatInt(api.nextID + 1)
     IN
       CASE method = "GET" ->
              api' = [api EXCEPT !.resp = Response(method, path, 200, NoBook, ListBooks, "")]
         [] method = "POST" ->
              IF ~body.json
                THEN api' = [api EXCEPT !.resp = WriteError(method, path, 400, "invalid json")]
              ELSE IF InvalidBook(b)
                THEN api' = [api EXCEPT !.resp = WriteError(method, path, 400, "invalid book data")]
              ELSE /\ api.nextID < MaxBooks
                   /\ api' = [api EXCEPT
                                !.nextID = @ + 1,
                                !.books = [i \in (DOMAIN @) \cup {id} |->
                                             IF i = id THEN Created(b, id) ELSE @[i]],
                                !.log = Append(@, [op |-> "create", id |-> id]),
                                !.resp = Response(method, path, 201, Created(b, id), {}, "")]
         [] OTHER ->
              api' = [api EXCEPT !.resp = WriteError(method, path, 405, "method not allowed")]
  /\ UNCHANGED notApi

\* handleBook, case http.MethodDelete: the case is empty, nothing is written
\* and the server answers 200 with an empty body
HandleBookDelete(method, path) == [api EXCEPT !.resp = Response(method, path, 200, NoBook, {}, "")]

\* handleBook: a request to /books/{id}
HandleBook(method, path, body) ==
  /\ api.pc = "on"
  /\ LET id == path.id
         b == DecodeBook(body)
     IN
       IF ~path.prefix
         THEN api' = [api EXCEPT !.resp = WriteError(method, path, 404, "not found")]
       ELSE IF id = ""
         THEN api' = [api EXCEPT !.resp = WriteError(method, path, 400, "missing id")]
       ELSE
       CASE method = "GET" ->
              IF id \notin DOMAIN api.books
                THEN api' = [api EXCEPT !.resp = WriteError(method, path, 404, "not found")]
                ELSE api' = [api EXCEPT !.resp = Response(method, path, 200, api.books[id], {}, "")]
         [] method = "PUT" ->
              IF ~body.json
                THEN api' = [api EXCEPT !.resp = WriteError(method, path, 400, "invalid json")]
              ELSE IF InvalidBook(b)
                THEN api' = [api EXCEPT !.resp = WriteError(method, path, 400, "invalid book data")]
              ELSE IF id \notin DOMAIN api.books
                THEN api' = [api EXCEPT !.resp = WriteError(method, path, 404, "not found")]
              ELSE api' = [api EXCEPT
                             !.books[id] = Updated(b, @),
                             !.resp = Response(method, path, 200, Updated(b, api.books[id]), {}, "")]
         [] method = "DELETE" -> api' = HandleBookDelete(method, path)
         [] OTHER ->
              api' = [api EXCEPT !.resp = WriteError(method, path, 405, "method not allowed")]
  /\ UNCHANGED notApi

\* the value of s.nextID after s.nextID++
NextIDBug(books, nextID) == Cardinality(DOMAIN books) + 1
NextID(books, nextID) == nextID + 1

\* the Books given to BookStore.Create
Books == {DecodeBook(body) : body \in Bodies}

\* BookStore.Create(b), the whole method under s.mu.Lock()
BookStoreCreate(b) ==
  /\ api.pc = "on"
  /\ Cardinality({j \in 1..Len(api.log) : api.log[j].op = "create"}) < MaxBooks
  /\ LET n == NextID(api.books, api.nextID)
         id == FormatInt(n)
     IN api' = [api EXCEPT
                  !.nextID = n,
                  !.books = [i \in (DOMAIN @) \cup {id} |->
                               IF i = id THEN Created(b, id) ELSE @[i]],
                  !.log = Append(@, [op |-> "create", id |-> id])]
  /\ UNCHANGED notApi

\* BookStore.Delete(id), the whole method under s.mu.Lock()
BookStoreDelete(id) ==
  /\ api.pc = "on"
  /\ IF id \notin DOMAIN api.books
       THEN api' = api
       ELSE api' = [api EXCEPT !.books = Deleted(@, id),
                               !.log = Append(@, [op |-> "delete", id |-> id])]
  /\ UNCHANGED notApi

\* the IDs that Create has assigned, in creation order
RECURSIVE IssuedOf(_)
IssuedOf(log) ==
  IF log = <<>> THEN <<>>
  ELSE IF log[1].op = "create" THEN <<log[1].id>> \o IssuedOf(Tail(log))
  ELSE IssuedOf(Tail(log))

Issued == IssuedOf(api.log)

InitApiOnly ==
  /\ LimRest
  /\ pipe8 = Off /\ pool8 = Off /\ chain = Off /\ fan = Off
  /\ scraper = Off /\ wp = Off /\ store = Off /\ bfo = Off /\ wf = Off /\ tmo = Off
  /\ InitApi

NextApi ==
  \/ \E method \in Methods, body \in Bodies : HandleBooks(method, body)
  \/ \E method \in Methods, path \in Paths, body \in Bodies : HandleBook(method, path, body)

SpecApi == InitApiOnly /\ [][NextApi]_vars

\* goroutines calling the methods of one BookStore; each call holds s.mu from
\* its first statement to its return, so concurrent calls take effect one
\* after the other, in any order
NextBookStore ==
  \/ \E b \in Books : BookStoreCreate(b)
  \/ \E path \in Paths : BookStoreDelete(path.id)

SpecBookStore == InitApiOnly /\ [][NextBookStore]_vars

\* ---------------------------------------------------------------------
\* Properties of the JSON API
\* ---------------------------------------------------------------------

\* C24: DELETE /books/{id} on an existing book removes it from the store
\* (so that GET /books/{id} answers 404 and GET /books does not list it);
\* on an id that does not exist it answers 404.
C24_DeleteRemovesBook ==
  [][(api.pc = "on" /\ api'.resp.method = "DELETE" /\ api'.resp.path.prefix
        /\ api'.resp.path.id # "")
     => IF api'.resp.path.id \in DOMAIN api.books
          THEN api'.resp.path.id \notin DOMAIN api'.books
          ELSE api'.resp.status = 404]_vars

\* ---------------------------------------------------------------------
\* Further properties of the web scraper
\* ---------------------------------------------------------------------

\* C25: at every moment at most N fetches are in progress, N being the
\* -workers value raised to 1 when it is below 1, whatever the number of URLs.
C25_BoundedFetches ==
  scraper.pc = "on"
  => Cardinality({i \in ScraperIds : scraper.w[i].pc = "fetch"}) <= scraper.workers

\* more URLs than workers, and as many fetches in progress as -workers allows
C25_Witness ==
  /\ scraper.pc = "on"
  /\ scraper.workers = 2
  /\ Len(scraper.urls) > scraper.workers
  /\ Cardinality({i \in ScraperIds : scraper.w[i].pc = "fetch"}) = scraper.workers

\* ---------------------------------------------------------------------
\* Properties of the rate-limiter test program
\* ---------------------------------------------------------------------

\* C26: the test program terminates: after the duration has elapsed every
\* worker returns, wg.Wait() completes and main prints the totals. A worker
\* returns only by receiving from done, so once the duration has elapsed
\* and done holds nothing any more, no worker is still running.
C26_LoadTestTerminates ==
  (mainPc = "wgwait" /\ doneFired /\ doneC = 0)
  => \A w \in Callers : cpc[w] = "returned"

\* C27: for a finite URL list and fetches that all return, main terminates:
\* it has received exactly one PageInfo per URL, then found results closed,
\* with successes + errors = len(urls), and the feeder and every worker have
\* returned.
C27_ScraperTerminates ==
  <>(scraper.pc = "on" =>
       /\ scraper.mpc = "done"
       /\ scraper.resultsClosed
       /\ Len(scraper.got) = Len(scraper.urls)
       /\ \A k \in DOMAIN scraper.urls :
            Cardinality({j \in DOMAIN scraper.got :
                           scraper.got[j].URL = scraper.urls[k]}) = 1
       /\ scraper.successes
            + Cardinality({j \in DOMAIN scraper.got : scraper.got[j].Error})
            = Len(scraper.urls)
       /\ scraper.fpc = "returned"
       /\ \A i \in ScraperIds : scraper.w[i].pc = "returned")

\* main is done with three URLs fetched by two workers, one fetch failed
C27_Witness ==
  /\ scraper.pc = "on"
  /\ scraper.mpc = "done"
  /\ Len(scraper.urls) = 3 /\ scraper.workers = 2
  /\ Len(scraper.got) = 3 /\ scraper.successes = 2
  /\ \A i \in ScraperIds : scraper.w[i].pc = "returned" /\ scraper.w[i].sent > 0

\* ---------------------------------------------------------------------
\* Properties of the worker pool under panics
\* ---------------------------------------------------------------------

\* C28: every Result a worker sends carries the ID of the task that produced
\* it, the error Result sent after a panic of that task included.
C28_ResultCarriesTaskID ==
  [][wp.pc = "on" =>
       \A i \in WpIds :
         wp'.w[i].sent = wp.w[i].sent + 1
         => wp'.results[Len(wp'.results)].TaskID = wp.w[i].task.ID]_vars

\* C29: a worker survives a panicking task: as long as the tasks channel is
\* not closed no worker has returned, so the workers serving the pool stay
\* numWorkers and the tasks submitted after a panic are still processed.
C29_WorkerSurvivesPanic ==
  (wp.pc = "on" /\ ~wp.tasksClosed)
  => \A i \in WpIds : wp.w[i].pc # "returned"

\* ---------------------------------------------------------------------
\* Properties of Stop
\* ---------------------------------------------------------------------

\* C30: Stop() releases the limiter's resources: once Stop() has returned,
\* the refill goroutine ends and no token is added to the bucket any more.
\* The refill goroutine is the only one that adds tokens, so the claim
\* requires that none of its steps after Stop() puts a token in.
C30_StopReleasesResources ==
  [][stopped => deposits' = deposits /\ tokens' <= tokens]_vars

\* ---------------------------------------------------------------------
\* Properties of the pipeline stage with a context
\* ---------------------------------------------------------------------

\* C31: backpressure: with the unbuffered out the stage never runs ahead of
\* its consumer; the values the stage has produced exceed the values the
\* consumer has received by at most one.
C31_Backpressure ==
  pipe8.pc = "on"
  => /\ Pipe8Produced - Len(pipe8.got) <= 1
     /\ Pipe8Produced - Len(pipe8.got) >= 0

\* the stage holds a value at its send while the consumer sleeps
C31_Witness ==
  /\ pipe8.pc = "on"
  /\ pipe8.cpc = "sleep"
  /\ pipe8.gpc = "run"
  /\ Len(pipe8.got) >= 1
  /\ Pipe8Produced = Len(pipe8.got) + 1

\* ---------------------------------------------------------------------
\* Properties of BookStore
\* ---------------------------------------------------------------------

\* C32: BookStore.Create assigns a fresh unique ID: the IDs are the decimal
\* strings of 1, 2, 3, ... in creation order, no two books receive the same
\* ID whatever the order of the calls, and the ID of a deleted book is not
\* assigned again; a stored book is stored under the ID it carries.
C32_FreshIDs ==
  api.pc = "on"
  => /\ \A j \in 1..Len(Issued) : Issued[j] = FormatInt(j)
     /\ \A j, k \in 1..Len(Issued) : j # k => Issued[j] # Issued[k]
     /\ \A i \in DOMAIN api.books :
          /\ api.books[i].ID = i
          /\ \E j \in 1..Len(Issued) : Issued[j] = i

\* a book is created, deleted, and another book is created
C32_Witness ==
  /\ api.pc = "on"
  /\ Len(api.log) = 3
  /\ api.log[1].op = "create"
  /\ api.log[2] = [op |-> "delete", id |-> api.log[1].id]
  /\ api.log[3].op = "create"
  /\ DOMAIN api.books = {api.log[3].id}

(***************************************************************************)
(* esercizio-10-pipeline: boundedFanOut(ctx, in, maxWorkers, worker)       *)
(*   vals       the values `in` delivers, inClosed: `in` was closed before *)
(*              all of them were sent (its producer saw ctx.Done())        *)
(*   ctxDone    ctx.Done() is closed                                       *)
(*   maxWorkers the capacity of sem, sem the tokens it holds               *)
(*   idx        the next value of `in`                                     *)
(*   dpc        the dispatching goroutine: "range" | "acquire" | "wait" |  *)
(*              "returned"; i is the counter of its last loop              *)
(*   outClosed  close(out) has run                                         *)
(*   w[j]       the goroutine launched for the j-th value: "idle" (not     *)
(*              launched) | "work" | "select" | "release" | "done" |       *)
(*              "panicked"; result is what it sends                        *)
(*   got        the values received from out by `for v := range out`       *)
(*   cpc        that consumer: "range" | "done"                            *)
(***************************************************************************)
BfoMaxWorkers == 2     \* largest maxWorkers tried

\* the worker function given by the caller: double, as in TestPipeline
BfoWorker(val) == val * 2

InitBfo ==
  \E vals \in Inputs, maxWorkers \in 1..BfoMaxWorkers :
    bfo = [pc |-> "on", vals |-> vals, inClosed |-> FALSE, ctxDone |-> FALSE,
           maxWorkers |-> maxWorkers, sem |-> 0, idx |-> 1,
           dpc |-> "range", i |-> 0, outClosed |-> FALSE,
           w |-> [j \in 1..Len(vals) |-> [pc |-> "idle", result |-> 0]],
           got |-> <<>>, cpc |-> "range"]

BfoIds == IF bfo.pc = "on" THEN DOMAIN bfo.w ELSE {}

\* a panic ends the program
BfoRunning ==
  /\ bfo.pc = "on"
  /\ \A j \in BfoIds : bfo.w[j].pc # "panicked"

\* the caller cancels the context
BfoCancel ==
  /\ BfoRunning
  /\ ~bfo.ctxDone
  /\ bfo' = [bfo EXCEPT !.ctxDone = TRUE]
  /\ UNCHANGED notBfo

\* the producer of `in` sees ctx.Done() and closes `in`
BfoInClosedEarly ==
  /\ BfoRunning
  /\ CtxDone(bfo)
  /\ ~bfo.inClosed
  /\ bfo.idx <= Len(bfo.vals)
  /\ bfo' = [bfo EXCEPT !.inClosed = TRUE]
  /\ UNCHANGED notBfo

\* for v := range in: the next value is received
BfoRangeNext ==
  /\ BfoRunning
  /\ bfo.dpc = "range"
  /\ ~bfo.inClosed
  /\ bfo.idx <= Len(bfo.vals)
  /\ bfo' = [bfo EXCEPT !.dpc = "acquire"]
  /\ UNCHANGED notBfo

\* case sem <- struct{}{}: then go func(val T) {...}(v)
BfoAcquire ==
  /\ BfoRunning
  /\ bfo.dpc = "acquire"
  /\ bfo.sem < bfo.maxWorkers
  /\ bfo' = [bfo EXCEPT !.sem = @ + 1,
                        !.w[bfo.idx].pc = "work",
                        !.idx = @ + 1,
                        !.dpc = "range"]
  /\ UNCHANGED notBfo

\* case <-ctx.Done(): return, and the deferred close(out)
BfoAcquireCancelled ==
  /\ BfoRunning
  /\ bfo.dpc = "acquire"
  /\ CtxDone(bfo)
  /\ bfo' = [bfo EXCEPT !.dpc = "returned", !.outClosed = TRUE]
  /\ UNCHANGED notBfo

\* range in ends: in is closed
BfoRangeEnd ==
  /\ BfoRunning
  /\ bfo.dpc = "range"
  /\ bfo.inClosed \/ bfo.idx > Len(bfo.vals)
  /\ bfo' = [bfo EXCEPT !.dpc = "wait", !.i = 0]
  /\ UNCHANGED notBfo

\* for i := 0; i < maxWorkers; i++ { sem <- struct{}{} }
BfoWaitAcquire ==
  /\ BfoRunning
  /\ bfo.dpc = "wait"
  /\ bfo.i < bfo.maxWorkers
  /\ bfo.sem < bfo.maxWorkers
  /\ bfo' = [bfo EXCEPT !.sem = @ + 1, !.i = @ + 1]
  /\ UNCHANGED notBfo

\* the last loop is over: the goroutine returns, and the deferred close(out)
BfoWaitEnd ==
  /\ BfoRunning
  /\ bfo.dpc = "wait"
  /\ bfo.i = bfo.maxWorkers
  /\ bfo' = [bfo EXCEPT !.dpc = "returned", !.outClosed = TRUE]
  /\ UNCHANGED notBfo

\* result := worker(val)
BfoWork(j) ==
  /\ BfoRunning
  /\ bfo.w[j].pc = "work"
  /\ bfo' = [bfo EXCEPT !.w[j] = [pc |-> "select",
                                  result |-> BfoWorker(bfo.vals[j])]]
  /\ UNCHANGED notBfo

\* case out <- result: the unbuffered send meets the consumer's receive
BfoSend(j) ==
  /\ BfoRunning
  /\ bfo.w[j].pc = "select"
  /\ ~bfo.outClosed
  /\ bfo.cpc = "range"
  /\ bfo' = [bfo EXCEPT !.got = Append(@, bfo.w[j].result),
                        !.w[j].pc = "release"]
  /\ UNCHANGED notBfo

\* case out <- result on the closed out: the send can proceed, and it panics
\* (send on closed channel), also when <-ctx.Done() can proceed as well
BfoSendOnClosed(j) ==
  /\ BfoRunning
  /\ bfo.w[j].pc = "select"
  /\ bfo.outClosed
  /\ bfo' = [bfo EXCEPT !.w[j].pc = "panicked"]
  /\ UNCHANGED notBfo

\* case <-ctx.Done():
BfoWorkerCancelled(j) ==
  /\ BfoRunning
  /\ bfo.w[j].pc = "select"
  /\ CtxDone(bfo)
  /\ bfo' = [bfo EXCEPT !.w[j].pc = "release"]
  /\ UNCHANGED notBfo

\* defer func() { <-sem }()
BfoRelease(j) ==
  /\ BfoRunning
  /\ bfo.w[j].pc = "release"
  /\ bfo.sem > 0
  /\ bfo' = [bfo EXCEPT !.sem = @ - 1, !.w[j].pc = "done"]
  /\ UNCHANGED notBfo

\* the consumer's `for v := range out` ends
BfoConsumerClosed ==
  /\ BfoRunning
  /\ bfo.cpc = "range"
  /\ bfo.outClosed
  /\ bfo' = [bfo EXCEPT !.cpc = "done"]
  /\ UNCHANGED notBfo

NextBfo ==
  \/ BfoCancel
  \/ BfoInClosedEarly
  \/ BfoRangeNext
  \/ BfoAcquire
  \/ BfoAcquireCancelled
  \/ BfoRangeEnd
  \/ BfoWaitAcquire
  \/ BfoWaitEnd
  \/ \E j \in BfoIds : BfoWork(j)
  \/ \E j \in BfoIds : BfoSend(j)
  \/ \E j \in BfoIds : BfoSendOnClosed(j)
  \/ \E j \in BfoIds : BfoWorkerCancelled(j)
  \/ \E j \in BfoIds : BfoRelease(j)
  \/ BfoConsumerClosed

InitBfoOnly ==
  /\ LimRest
  /\ pipe8 = Off /\ pool8 = Off /\ chain = Off /\ fan = Off
  /\ scraper = Off /\ wp = Off /\ store = Off /\ api = Off
  /\ wf = Off /\ tmo = Off
  /\ InitBfo

SpecBfo == InitBfoOnly /\ [][NextBfo]_vars

\* ---------------------------------------------------------------------
\* Properties of boundedFanOut
\* ---------------------------------------------------------------------

\* C33: boundedFanOut closes out only after every worker goroutine it
\* launched has finished, so no worker sends on the closed out, also when
\* the context is cancelled while workers are running.
C33_CloseAfterWorkers ==
  bfo.pc = "on"
  => /\ bfo.outClosed => \A j \in BfoIds : bfo.w[j].pc \in {"idle", "done"}
     /\ \A j \in BfoIds : bfo.w[j].pc # "panicked"

(***************************************************************************)
(* esercizio-01-word-frequency: main                                       *)
(*   words   the words of the input, as countLines splits and lowers them  *)
(*   top     the value of -top                                             *)
(*   step    main: "count" | "print" | "done"                              *)
(*   pos     the next word to count                                        *)
(*   counts  the map counts                                                *)
(*   items   the slice items, limit and i the variables of the last loop   *)
(*   out     the lines printed by the last loop: number, word, count       *)
(***************************************************************************)
MaxWords == 4      \* longest input, in words
MaxTop == 2        \* largest -top tried

WfWords == {"a", "ab", "b"}

\* the byte order of Go's < on the words tried
WordRank(w) == CASE w = "a" -> 1 [] w = "ab" -> 2 [] w = "b" -> 3

InitWf ==
  \E n \in 0..MaxWords, top \in 0..MaxTop :
    \E words \in [1..n -> WfWords] :
      wf = [pc |-> "on", words |-> words, top |-> top, step |-> "count",
            pos |-> 1, counts |-> [w \in {} |-> 0], items |-> <<>>,
            limit |-> 0, i |-> 0, out |-> <<>>]

\* counts[w]++
CountsInc(counts, w) ==
  [x \in (DOMAIN counts) \cup {w} |->
     IF x = w THEN (IF w \in DOMAIN counts THEN counts[w] + 1 ELSE 1)
     ELSE counts[x]]

\* countLines: one more word is counted
WfCountWord ==
  /\ wf.pc = "on"
  /\ wf.step = "count"
  /\ wf.pos <= Len(wf.words)
  /\ wf' = [wf EXCEPT !.counts = CountsInc(@, wf.words[wf.pos]),
                      !.pos = @ + 1]
  /\ UNCHANGED notWf

\* the less function given to sort.Slice
WfLess(x, y) ==
  IF x.Count # y.Count THEN x.Count > y.Count
  ELSE WordRank(x.Word) < WordRank(y.Word)

\* sort.Slice(items, less): less is a strict total order on the items of a
\* map, so the sorted slice does not depend on the order of the map iteration
RECURSIVE SortItems(_)
SortItems(items) ==
  IF items = {} THEN <<>>
  ELSE LET first == CHOOSE x \in items : \A y \in items \ {x} : WfLess(x, y)
       IN <<first>> \o SortItems(items \ {first})

\* limit := len(items); if *top > 0 && *top < limit { limit = *top }
WfLimit(top, len) == IF top > 0 /\ top < len THEN top ELSE len

\* the input is read: items is built and sorted, limit is computed
WfSort ==
  /\ wf.pc = "on"
  /\ wf.step = "count"
  /\ wf.pos > Len(wf.words)
  /\ LET items == SortItems({[Word |-> w, Count |-> wf.counts[w]] :
                               w \in DOMAIN wf.counts})
     IN wf' = [wf EXCEPT !.items = items,
                         !.limit = WfLimit(wf.top, Len(items)),
                         !.i = 0,
                         !.step = "print"]
  /\ UNCHANGED notWf

\* one iteration of for i := 0; i < limit; i++: an item with Count <= 1 is
\* skipped, another one is printed with the number i+1
WfPrintLine ==
  /\ wf.pc = "on"
  /\ wf.step = "print"
  /\ wf.i < wf.limit
  /\ LET item == wf.items[wf.i + 1]
     IN IF item.Count <= 1
          THEN wf' = [wf EXCEPT !.i = @ + 1]
          ELSE wf' = [wf EXCEPT !.i = @ + 1,
                                !.out = Append(@, [n |-> wf.i + 1,
                                                   Word |-> item.Word,
                                                   Count |-> item.Count])]
  /\ UNCHANGED notWf

\* the loop is over and main returns
WfExit ==
  /\ wf.pc = "on"
  /\ wf.step = "print"
  /\ wf.i = wf.limit
  /\ wf' = [wf EXCEPT !.step = "done"]
  /\ UNCHANGED notWf

NextWf ==
  \/ WfCountWord
  \/ WfSort
  \/ WfPrintLine
  \/ WfExit

InitWfOnly ==
  /\ LimRest
  /\ pipe8 = Off /\ pool8 = Off /\ chain = Off /\ fan = Off
  /\ scraper = Off /\ wp = Off /\ store = Off /\ api = Off
  /\ bfo = Off /\ tmo = Off
  /\ InitWf

SpecWf == InitWfOnly /\ [][NextWf]_vars

\* ---------------------------------------------------------------------
\* Properties of the word-frequency program
\* ---------------------------------------------------------------------

\* the occurrences of w in the input
Occurrences(w) == Cardinality({k \in 1..Len(wf.words) : wf.words[k] = w})

\* the distinct words of the input
Distinct == {wf.words[k] : k \in 1..Len(wf.words)}

\* w comes before v in the order by frequency: more occurrences, or as many
\* and a smaller word
Before(w, v) ==
  \/ Occurrences(w) > Occurrences(v)
  \/ Occurrences(w) = Occurrences(v) /\ WordRank(w) < WordRank(v)

\* C34: the program prints the words ordered by frequency: with -top=0 every
\* distinct word exactly once, by non-increasing count and, for equal counts,
\* ascending word; with -top=N > 0 exactly the first min(N, distinct words)
\* entries of that order.
C34_PrintedByFrequency ==
  (wf.pc = "on" /\ wf.step = "done")
  => LET expected == IF wf.top > 0 /\ wf.top < Cardinality(Distinct)
                       THEN wf.top ELSE Cardinality(Distinct)
     IN /\ Len(wf.out) = expected
        /\ \A j \in 1..Len(wf.out) :
             /\ wf.out[j].Word \in Distinct
             /\ wf.out[j].Count = Occurrences(wf.out[j].Word)
        /\ \A j, k \in 1..Len(wf.out) :
             j < k => Before(wf.out[j].Word, wf.out[k].Word)
        /\ \A w \in Distinct :
             (\A j \in 1..Len(wf.out) : wf.out[j].Word # w)
             => \A j \in 1..Len(wf.out) : Before(wf.out[j].Word, w)

\* ---------------------------------------------------------------------
\* Properties of a closed Storage
\* ---------------------------------------------------------------------

\* C35: once Close has returned on a MemoryStorage or a FileStorage, every
\* later Get, Put, Delete and List returns "storage closed" and leaves the
\* stored data unchanged; a second Close returns nil; a closed storage does
\* not become open again. A call made after Close finds closed set at its
\* first step, where it takes the lock.
C35_ClosedStaysClosed ==
  [][\A c \in StoreClients :
       (store.pc = "on" /\ store.closed[ImplOf(c)])
       => /\ store'.closed[ImplOf(c)]
          /\ (store.cl[c].pc = "body" /\ store'.cl[c] # store.cl[c])
             => /\ store'.cl[c].pc = "idle"
                /\ store'.data = store.data
                /\ store'.files = store.files
                /\ IF store.cl[c].op = "close"
                     THEN store'.cl[c].ret.err = Nil
                     ELSE store'.cl[c].ret = [err |-> ErrClosed, val |-> "",
                                              keys |-> <<>>]]_vars

\* a key is stored, the storage is closed, and a Put has returned
\* "storage closed"
C35_Witness ==
  /\ store.pc = "on"
  /\ \E c \in StoreClients :
       /\ store.closed[ImplOf(c)]
       /\ store.last # EmptyMap
       /\ store.cl[c].pc = "idle"
       /\ store.cl[c].op = "put"
       /\ store.cl[c].ret.err = ErrClosed

\* ---------------------------------------------------------------------
\* Properties of a FileStorage shared by goroutines
\* ---------------------------------------------------------------------

\* C38: FileStorage never writes after it is closed: a Put that races with
\* Close finishes its write before Close returns, or returns "storage closed"
\* without writing; no file is created or replaced in the directory after
\* Close has returned.
C38_NoWriteAfterClose ==
  [][(store.pc = "on" /\ store.closed["file"])
     => store'.files = store.files]_vars

\* C39: two concurrent FileStorage.Put calls for the same key both return
\* nil and leave the key holding the complete value of one of them: a
\* concurrent Get never observes a mixed or partial value, no Put fails
\* because of the other, and no temporary .tmp file is left behind. (A Put
\* may return "storage closed" once the storage is closed.)
C39_ConcurrentPuts ==
  store.pc = "on"
  => /\ \A c \in StoreClients :
          (store.cl[c].pc = "idle" /\ store.cl[c].op = "put")
          => \/ store.cl[c].ret.err = Nil
             \/ store.cl[c].ret.err = ErrClosed /\ store.closed["file"]
     /\ \A c \in StoreClients :
          (store.cl[c].pc = "idle" /\ store.cl[c].op = "get"
             /\ store.cl[c].ret.err = Nil)
          => store.cl[c].ret.val \in SharedVals \cup LeftVals
     /\ (\A c \in StoreClients : store.cl[c].pc = "idle")
          => /\ (\E c \in StoreClients :
                   store.cl[c].op = "put" /\ store.cl[c].ret.err # ErrClosed)
                => \A path \in DOMAIN store.files : Ext(path) = ".dat"
             /\ PathForKey("a") \in DOMAIN store.files
                  => store.files[PathForKey("a")] \in SharedVals \cup LeftVals

\* ---------------------------------------------------------------------
\* Termination of workerPoolWithContextExample
\* ---------------------------------------------------------------------

\* the worker pool alone; the Go scheduler runs main and every worker that
\* can take a step
InitPool8Only ==
  /\ LimRest
  /\ pipe8 = Off /\ chain = Off /\ fan = Off
  /\ scraper = Off /\ wp = Off /\ store = Off /\ api = Off
  /\ bfo = Off /\ wf = Off /\ tmo = Off
  /\ InitPool8

SpecPool8 == InitPool8Only /\ [][NextPool8]_vars

FairSpecPool8 ==
  /\ SpecPool8
  /\ WF_vars(Pool8MainSend \/ Pool8MainClose \/ Pool8MainRecv
             \/ Pool8MainCancelled \/ Pool8MainDone)
  /\ \A i \in PoolIds :
       WF_vars(Pool8WorkerCancelled(i) \/ Pool8WorkerRecv(i)
               \/ Pool8WorkerJobsClosed(i) \/ Pool8WorkerWork(i)
               \/ Pool8WorkerSend(i) \/ Pool8WorkerSendCancelled(i))

\* C36: in workerPoolWithContextExample, for every interleaving and every
\* moment at which the deadline fires, all workers eventually return and main
\* returns: main is not held up at a job send (it has sent every job and
\* closed jobs), no worker is held up at its result send, and main has
\* received at most as many results as jobs, each equal to 2*j for a
\* distinct job j.
C36_PoolTerminates ==
  <>(pool8.pc = "on"
     => /\ pool8.mpc = "returned"
        /\ \A i \in PoolIds : pool8.w[i].pc = "returned"
        /\ pool8.jobID = PoolJobs + 1
        /\ pool8.jobsClosed
        /\ Len(pool8.got) <= PoolJobs
        /\ \A k \in 1..Len(pool8.got) :
             \E j \in 1..PoolJobs : pool8.got[k] = 2 * j
        /\ \A k, l \in 1..Len(pool8.got) :
             k # l => pool8.got[k] # pool8.got[l])

\* the deadline fired while results were outstanding: main has returned with
\* some results but not all, and every worker has returned
C36_Witness ==
  /\ pool8.pc = "on"
  /\ pool8.mpc = "returned"
  /\ pool8.received > 0
  /\ pool8.received < PoolJobs
  /\ \A i \in PoolIds : pool8.w[i].pc = "returned"

(***************************************************************************)
(* esercizio-08-context: withTimeoutExample                                *)
(*   timeout   the duration given to context.WithTimeout (500ms)           *)
(*   sleep     the duration of the goroutine's time.Sleep (1s)             *)
(*   now       the time elapsed since the start                            *)
(*   ctxDone   ctx.Done() is closed                                        *)
(*   resultCh  the buffered channel                                        *)
(*   gpc       the goroutine: "sleep" | "send" | "returned"                *)
(*   mpc       withTimeoutExample: "select" | "returned"                   *)
(*   printed   what the chosen case printed                                *)
(***************************************************************************)
MaxTime == 3        \* durations and elapsed time, in units of time

\* make(chan string, 1)
TmoChanCap == 1

InitTmo ==
  \E timeout \in 0..MaxTime, sleep \in 0..MaxTime :
    tmo = [pc |-> "on", timeout |-> timeout, sleep |-> sleep, now |-> 0,
           ctxDone |-> FALSE, resultCh |-> <<>>, gpc |-> "sleep",
           mpc |-> "select", printed |-> ""]

\* time passes
TmoTick ==
  /\ tmo.pc = "on"
  /\ tmo.now < MaxTime
  /\ tmo' = [tmo EXCEPT !.now = @ + 1]
  /\ UNCHANGED notTmo

\* the deadline of context.WithTimeout is reached
TmoDeadline ==
  /\ tmo.pc = "on"
  /\ ~tmo.ctxDone
  /\ tmo.now >= tmo.timeout
  /\ tmo' = [tmo EXCEPT !.ctxDone = TRUE]
  /\ UNCHANGED notTmo

\* time.Sleep(1 * time.Second) returns
TmoWake ==
  /\ tmo.pc = "on"
  /\ tmo.gpc = "sleep"
  /\ tmo.now >= tmo.sleep
  /\ tmo' = [tmo EXCEPT !.gpc = "send"]
  /\ UNCHANGED notTmo

\* resultCh <- "completed" on an unbuffered resultCh: the send meets main's
\* receive at the select
TmoSendUnbuffered ==
  /\ tmo.pc = "on"
  /\ tmo.gpc = "send"
  /\ tmo.mpc = "select"
  /\ tmo' = [tmo EXCEPT !.printed = "completed",
                        !.gpc = "returned",
                        !.mpc = "returned",
                        !.ctxDone = TRUE]
  /\ UNCHANGED notTmo

\* resultCh <- "completed", and the goroutine returns
TmoSend ==
  /\ tmo.pc = "on"
  /\ tmo.gpc = "send"
  /\ Len(tmo.resultCh) < TmoChanCap
  /\ tmo' = [tmo EXCEPT !.resultCh = Append(@, "completed"),
                        !.gpc = "returned"]
  /\ UNCHANGED notTmo

\* case result := <-resultCh, then the deferred cancel()
TmoMainResult ==
  /\ tmo.pc = "on"
  /\ tmo.mpc = "select"
  /\ tmo.resultCh # <<>>
  /\ tmo' = [tmo EXCEPT !.printed = Head(tmo.resultCh),
                        !.resultCh = ChanRest(@),
                        !.mpc = "returned",
                        !.ctxDone = TRUE]
  /\ UNCHANGED notTmo

\* case <-ctx.Done(): ctx.Err() is printed
TmoMainTimeout ==
  /\ tmo.pc = "on"
  /\ tmo.mpc = "select"
  /\ CtxDone(tmo)
  /\ tmo' = [tmo EXCEPT !.printed = "context deadline exceeded",
                        !.mpc = "returned"]
  /\ UNCHANGED notTmo

NextTmo ==
  \/ TmoTick
  \/ TmoDeadline
  \/ TmoWake
  \/ TmoSend
  \/ TmoMainResult
  \/ TmoMainTimeout

InitTmoOnly ==
  /\ LimRest
  /\ pipe8 = Off /\ pool8 = Off /\ chain = Off /\ fan = Off
  /\ scraper = Off /\ wp = Off /\ store = Off /\ api = Off
  /\ bfo = Off /\ wf = Off
  /\ InitTmo

SpecTmo == InitTmoOnly /\ [][NextTmo]_vars

\* time passes, and the Go scheduler runs the goroutine when it can take a step
FairSpecTmo ==
  /\ SpecTmo
  /\ WF_vars(TmoTick)
  /\ WF_vars(TmoWake \/ TmoSend)

\* ---------------------------------------------------------------------
\* Properties of withTimeoutExample
\* ---------------------------------------------------------------------

\* C37: the slow goroutine never leaks: whether main takes the result case
\* or the ctx.Done case of the select, the goroutine's send on resultCh
\* completes (resultCh has capacity 1) and the goroutine terminates.
C37_GoroutineTerminates ==
  <>(tmo.pc = "on" => tmo.gpc = "returned")

\* main took the ctx.Done case and returned; the goroutine has sent its
\* result, which stays in the buffer, and has returned
C37_Witness ==
  /\ tmo.pc = "on"
  /\ tmo.mpc = "returned"
  /\ tmo.printed = "context deadline exceeded"
  /\ tmo.gpc = "returned"
  /\ tmo.resultCh = <<"completed">>

====
